---------------------------- MODULE Spec2Model ----------------------------
(***************************************************************************)
(* A model of the request router, the provider registry, the token store   *)
(* and the OAuth client of claude-code-mux.                                *)
(*                                                                         *)
(* Strings that the code takes apart (model names, regex patterns, system  *)
(* prompt text, tool types) are sequences of atoms: an atom is a piece of  *)
(* text the code never looks inside, and concatenating sequences is        *)
(* concatenating the text.  Option<T> is a sequence of length 0 or 1.      *)
(***************************************************************************)
EXTENDS Integers, Sequences, FiniteSets, TLC

VARIABLES
    \* ---- router (src/src/router/mod.rs)
    config,        \* the router section of AppConfig held by the Router
    router,        \* the Router's compiled regexes
    request,       \* the AnthropicRequest handed to route (mutated in place)
    incoming,      \* the request as it was when the last route call started
    decision,      \* Option<RouteDecision> returned by the last route call
    routes,        \* number of route calls made on this request
    \* ---- provider registry (src/src/providers/registry.rs)
    app_config,    \* AppConfig.providers and AppConfig.models as the build read them
    shared_config, \* the AppConfig behind AppState.config (Arc<RwLock<AppConfig>>) now
    registry,      \* Option<ProviderRegistry>: None until built
    build_error,   \* Option<ProviderError> of new_from_app_state_deps
    lookup,        \* the last get_provider_for_model call and its result
    \* ---- token store and OAuth client (src/src/auth)
    tokens,        \* TokenStore.tokens: provider_id -> Option<OAuthToken>
    file,          \* the content of the file at TokenStore.file_path
    now,           \* Utc::now()
    last_op,       \* the last token store / OAuth client operation and its outcome
    reloaded,      \* Option<map>: a second TokenStore::new on the same path
    calls,         \* per caller: the state of an adapter call in progress
    \* ---- Gemini adapter (src/src/providers/gemini.rs)
    gemini,        \* a unary send_message call: its position in the retry loop
    schema,        \* a tool's input_schema, cleaned in place
    schema_before, \* the values the schema had before each cleaning, oldest first
    cleanings,     \* number of clean_json_schema calls made on the schema
    \* ---- OpenAI adapter (src/src/providers/openai.rs)
    openai         \* a send_message or send_message_stream call of one adapter

routerVars   == <<config, router, request, incoming, decision, routes>>
registryVars == <<app_config, shared_config, registry, build_error, lookup>>
authVars     == <<tokens, file, now, last_op, reloaded, calls>>
adapterVars  == <<gemini, schema, schema_before, cleanings, openai>>
vars         == <<routerVars, registryVars, authVars, adapterVars>>

-----------------------------------------------------------------------------
(* Option<T> *)
None       == <<>>
Some(x)    == <<x>>
IsSome(o)  == o # <<>>
Unwrap(o)  == o[1]

Range(s)   == {s[i] : i \in 1..Len(s)}

-----------------------------------------------------------------------------
(***************************************************************************)
(* Regular expressions.  A pattern is the token sequence of its text:      *)
(* "(?i)" (case-insensitive flag, leading), "^" (start anchor), ".*", "("  *)
(* (an unclosed group: a syntax error) and literal atoms.                  *)
(***************************************************************************)
Lower(a) ==
    CASE a = "Claude" -> "claude"
      [] a = "CLAUDE" -> "claude"
      [] a = "Haiku"  -> "haiku"
      [] a = "HAIKU"  -> "haiku"
      [] OTHER        -> a

RECURSIVE SplitStar(_, _)
\* the literal segments of a pattern body, split at ".*"
SplitStar(toks, cur) ==
    IF toks = <<>> THEN <<cur>>
    ELSE IF Head(toks) = ".*" THEN <<cur>> \o SplitStar(Tail(toks), <<>>)
    ELSE SplitStar(Tail(toks), Append(cur, Head(toks)))

\* Regex::new(pattern): Ok(regex) or Err
RegexNew(pattern) ==
    LET ci    == pattern # <<>> /\ Head(pattern) = "(?i)"
        rest1 == IF ci THEN Tail(pattern) ELSE pattern
        anch  == rest1 # <<>> /\ Head(rest1) = "^"
        body  == IF anch THEN Tail(rest1) ELSE rest1
    IN  IF \E i \in 1..Len(body) : body[i] \in {"(", "(?i)", "^"}
        THEN [ok |-> FALSE]
        ELSE [ok |-> TRUE, ci |-> ci, anchored |-> anch, segs |-> SplitStar(body, <<>>)]

AtomEq(p, a, ci) == IF ci THEN Lower(p) = Lower(a) ELSE p = a

RECURSIVE SegsMatchAt(_, _, _, _)
\* the segments match s in order, the first one starting exactly at position i
SegsMatchAt(segs, s, i, ci) ==
    LET g == Head(segs)
    IN  /\ i + Len(g) - 1 <= Len(s)
        /\ \A k \in 1..Len(g) : AtomEq(g[k], s[i + k - 1], ci)
        /\ \/ Len(segs) = 1
           \/ \E j \in (i + Len(g))..(Len(s) + 1) : SegsMatchAt(Tail(segs), s, j, ci)

\* Regex::is_match: an unanchored search unless the pattern starts with ^
IsMatch(re, s) ==
    \E i \in (IF re.anchored THEN {1} ELSE 1..(Len(s) + 1)) :
        SegsMatchAt(re.segs, s, i, re.ci)

DefaultAutoMapPattern    == <<"^", "claude", "-">>
DefaultBackgroundPattern == <<"(?i)", "claude", ".*", "haiku">>

\* a Router::new that compiles the empty string as a pattern of its own
CompileOrDefaultKeepEmpty(opt, default) ==
    IF ~IsSome(opt) THEN Some(RegexNew(default))
    ELSE IF RegexNew(Unwrap(opt)).ok THEN Some(RegexNew(Unwrap(opt)))
    ELSE Some(RegexNew(default))

\* one of the two regex fields of Router::new: None, "" and an invalid pattern all
\* yield the default pattern
CompileOrDefault(opt, default) ==
    IF ~IsSome(opt) THEN Some(RegexNew(default))
    ELSE IF Unwrap(opt) = <<>> THEN Some(RegexNew(default))
    ELSE IF RegexNew(Unwrap(opt)).ok THEN Some(RegexNew(Unwrap(opt)))
    ELSE Some(RegexNew(default))

RouterNew(cfg) ==
    [auto_map_regex   |-> CompileOrDefault(cfg.auto_map_regex, DefaultAutoMapPattern),
     background_regex |-> CompileOrDefault(cfg.background_regex, DefaultBackgroundPattern)]

-----------------------------------------------------------------------------
(***************************************************************************)
(* Router::route and its helpers.  System prompt text is a sequence over   *)
(* TextAtoms; the delimiters of the subagent tag are the adjacent pairs    *)
(*   <CCM-SUBAGENT-MODEL>  = "<CCM-SUB"  "AGENT-MODEL>"                    *)
(*   </CCM-SUBAGENT-MODEL> = "</CCM-SUB" "AGENT-MODEL>"                    *)
(* so that text around a removed tag can join into a new delimiter.        *)
(***************************************************************************)
TextAtoms == {"<CCM-SUB", "</CCM-SUB", "AGENT-MODEL>", "gpt-4o", "\n"}

OpenAt(t, i)  == i + 1 <= Len(t) /\ t[i] = "<CCM-SUB"  /\ t[i + 1] = "AGENT-MODEL>"
CloseAt(t, i) == i + 1 <= Len(t) /\ t[i] = "</CCM-SUB" /\ t[i + 1] = "AGENT-MODEL>"

\* str::contains("<CCM-SUBAGENT-MODEL>")
ContainsOpen(t) == \E i \in 1..Len(t) : OpenAt(t, i)

\* a match of <CCM-SUBAGENT-MODEL>(.*?)</CCM-SUBAGENT-MODEL> that starts at i and
\* whose closing delimiter starts at j: "." matches no line break, and the lazy
\* quantifier stops at the first closing delimiter
TagMatch(t, i, j) ==
    /\ OpenAt(t, i)
    /\ j >= i + 2
    /\ CloseAt(t, j)
    /\ \A k \in (i + 2)..(j - 1) : t[k] # "\n" /\ ~CloseAt(t, k)

HasMatchAt(t, i) == \E j \in 1..Len(t) : TagMatch(t, i, j)
MatchEnd(t, i)   == (CHOOSE j \in 1..Len(t) : TagMatch(t, i, j)) + 1

\* the start of the leftmost match at or after position from, 0 if there is none
FirstMatchFrom(t, from) ==
    IF \E i \in from..Len(t) : HasMatchAt(t, i)
    THEN CHOOSE i \in from..Len(t) :
            HasMatchAt(t, i) /\ \A k \in from..(i - 1) : ~HasMatchAt(t, k)
    ELSE 0

\* Regex::captures(text).get(1): the NAME of the leftmost match
Captures(t) ==
    LET i == FirstMatchFrom(t, 1)
    IN  IF i = 0 THEN None ELSE Some(SubSeq(t, i + 2, MatchEnd(t, i) - 2))

RECURSIVE ReplaceAllFrom(_, _)
\* Regex::replace_all(text, ""): one left-to-right pass over the non-overlapping
\* matches of the text as it was
ReplaceAllFrom(t, from) ==
    LET i == FirstMatchFrom(t, from)
    IN  IF i = 0 THEN SubSeq(t, from, Len(t))
        ELSE SubSeq(t, from, i - 1) \o ReplaceAllFrom(t, MatchEnd(t, i) + 1)

ReplaceAll(t) == ReplaceAllFrom(t, 1)

\* Router::has_web_search_tool: some tool's type starts with "web_search"
has_web_search_tool(req) ==
    /\ IsSome(req.tools)
    /\ \E i \in 1..Len(Unwrap(req.tools)) :
          LET ty == Unwrap(req.tools)[i].type
          IN  IsSome(ty) /\ Unwrap(ty) # <<>> /\ Head(Unwrap(ty)) = "web_search"

\* Router::is_plan_mode
is_plan_mode(req) ==
    IsSome(req.thinking) /\ Unwrap(req.thinking).type = "enabled"

\* Router::is_background_task
is_background_task(rt, model) ==
    IF IsSome(rt.background_regex) THEN IsMatch(Unwrap(rt.background_regex), model)
    ELSE FALSE

\* an extraction that takes the tags out of every system block
extract_subagent_model_all_blocks(req) ==
    LET sys == req.system
        unchanged == [name |-> None, system |-> sys]
    IN  IF sys.kind # "blocks" THEN unchanged
        ELSE IF Len(sys.blocks) < 2 THEN unchanged
        ELSE IF ~ContainsOpen(sys.blocks[2]) THEN unchanged
        ELSE IF ~IsSome(Captures(sys.blocks[2])) THEN unchanged
        ELSE [name   |-> Captures(sys.blocks[2]),
              system |-> [sys EXCEPT !.blocks = [i \in 1..Len(@) |-> ReplaceAll(@[i])]]]

\* Router::extract_subagent_model: [name |-> Option<String>, system |-> system after]
extract_subagent_model(req) ==
    LET sys == req.system
        unchanged == [name |-> None, system |-> sys]
    IN  IF sys.kind # "blocks" THEN unchanged
        ELSE IF Len(sys.blocks) < 2 THEN unchanged
        ELSE IF ~ContainsOpen(sys.blocks[2]) THEN unchanged
        ELSE IF ~IsSome(Captures(sys.blocks[2])) THEN unchanged
        ELSE [name   |-> Captures(sys.blocks[2]),
              system |-> [sys EXCEPT !.blocks[2] = ReplaceAll(sys.blocks[2])]]

\* a router that never rewrites the model name
AutoMappedNever(cfg, rt, model) == model

\* a router that rewrites every name to router.default, and router.default itself to
\* another name
AutoMappedToggle(cfg, rt, model) ==
    IF model = cfg.default THEN <<"glm", "-", "4.6">> ELSE cfg.default

\* step 0 of route: the model name after auto-mapping
AutoMapped(cfg, rt, model) ==
    IF IsSome(rt.auto_map_regex) /\ IsMatch(Unwrap(rt.auto_map_regex), model)
    THEN cfg.default
    ELSE model

\* the background rule matched against the rewritten name
BackgroundSubjectMapped(original_model, mapped_model) == mapped_model

\* route 91-92, 140: the model name the background rule is matched against
BackgroundSubject(original_model, mapped_model) == original_model

\* a router that tries the think rule before the websearch rule
RouteResultThinkFirst(cfg, rt, req) ==
    LET original_model == req.model
        mapped == [req EXCEPT !.model = AutoMapped(cfg, rt, req.model)]
        sub    == extract_subagent_model(mapped)
    IN  IF IsSome(cfg.think) /\ is_plan_mode(mapped)
        THEN [request  |-> mapped,
              decision |-> [model_name |-> Unwrap(cfg.think), route_type |-> "Think"]]
        ELSE IF IsSome(cfg.websearch) /\ has_web_search_tool(mapped)
        THEN [request  |-> mapped,
              decision |-> [model_name |-> Unwrap(cfg.websearch), route_type |-> "WebSearch"]]
        ELSE IF IsSome(sub.name)
        THEN [request  |-> [mapped EXCEPT !.system = sub.system],
              decision |-> [model_name |-> Unwrap(sub.name), route_type |-> "Default"]]
        ELSE IF /\ IsSome(cfg.background)
                /\ is_background_task(rt, BackgroundSubject(original_model, mapped.model))
        THEN [request  |-> mapped,
              decision |-> [model_name |-> Unwrap(cfg.background), route_type |-> "Background"]]
        ELSE [request  |-> mapped,
              decision |-> [model_name |-> mapped.model, route_type |-> "Default"]]

\* Router::route: [request |-> the request after the call, decision |-> RouteDecision]
RouteResult(cfg, rt, req) ==
    LET original_model == req.model
        mapped == [req EXCEPT !.model = AutoMapped(cfg, rt, req.model)]
        sub    == extract_subagent_model(mapped)
    IN  IF IsSome(cfg.websearch) /\ has_web_search_tool(mapped)
        THEN [request  |-> mapped,
              decision |-> [model_name |-> Unwrap(cfg.websearch), route_type |-> "WebSearch"]]
        ELSE IF IsSome(sub.name)
        THEN [request  |-> [mapped EXCEPT !.system = sub.system],
              decision |-> [model_name |-> Unwrap(sub.name), route_type |-> "Default"]]
        ELSE IF IsSome(cfg.think) /\ is_plan_mode(mapped)
        THEN [request  |-> mapped,
              decision |-> [model_name |-> Unwrap(cfg.think), route_type |-> "Think"]]
        ELSE IF /\ IsSome(cfg.background)
                /\ is_background_task(rt, BackgroundSubject(original_model, mapped.model))
        THEN [request  |-> mapped,
              decision |-> [model_name |-> Unwrap(cfg.background), route_type |-> "Background"]]
        ELSE [request  |-> mapped,
              decision |-> [model_name |-> mapped.model, route_type |-> "Default"]]


-----------------------------------------------------------------------------
(* The requests and router configurations the router is exercised on. *)
MaxRoutes == 2

Sonnet     == <<"claude", "-", "sonnet">>
Haiku      == <<"claude", "-", "haiku">>
UpperHaiku == <<"CLAUDE", "-", "HAIKU">>
Glm        == <<"glm", "-", "4.6">>
ModelNames == {Sonnet, Haiku, UpperHaiku, Glm}

OpenTag  == <<"<CCM-SUB", "AGENT-MODEL>">>
CloseTag == <<"</CCM-SUB", "AGENT-MODEL>">>
PlainText   == <<"gpt-4o", "\n", "gpt-4o">>
TaggedText  == <<"gpt-4o", "\n">> \o OpenTag \o <<"gpt-4o">> \o CloseTag \o <<"\n", "gpt-4o">>
SampleTexts ==
    { PlainText,
      TaggedText,
      OpenTag \o <<"gpt-4o">>,                                   \* never closed
      OpenTag \o <<"gpt-4o", "\n">> \o CloseTag,                 \* a line break inside
      OpenTag \o CloseTag,                                       \* an empty NAME
      OpenTag \o <<"gpt-4o">> \o CloseTag \o OpenTag \o <<"gpt-4o", "gpt-4o">> \o CloseTag,
      <<"<CCM-SUB">> \o OpenTag \o <<"gpt-4o">> \o CloseTag
          \o <<"AGENT-MODEL>", "gpt-4o">> \o CloseTag }          \* a tag inside a delimiter

Systems ==
    {[kind |-> "none"], [kind |-> "text", text |-> TaggedText],
     [kind |-> "blocks", blocks |-> <<TaggedText>>],
     [kind |-> "blocks", blocks |-> <<TaggedText, PlainText, TaggedText>>],
     [kind |-> "blocks", blocks |-> <<TaggedText, TaggedText, TaggedText>>]}
    \cup {[kind |-> "blocks", blocks |-> <<PlainText, t>>] : t \in SampleTexts}

ToolLists ==
    { None,
      Some(<<[type |-> None], [type |-> Some(<<"web_search", "_20250305">>)]>>),
      Some(<<[type |-> None], [type |-> Some(<<"web", "_search">>)]>>) }

Thinkings == {None, Some([type |-> "enabled"]), Some([type |-> "disabled"])}

Requests ==
    [model : ModelNames, tools : ToolLists, thinking : Thinkings, system : Systems,
     messages : {<<[role |-> "user", content |-> "hi"]>>}, max_tokens : {1024}]

InvalidPattern == <<"(", "glm">>
AutoMapPatterns    == {None, Some(<<>>), Some(InvalidPattern), Some(<<"^", "glm">>)}
BackgroundPatterns == {None, Some(<<>>), Some(InvalidPattern), Some(<<"glm">>)}

RouterConfigs ==
    { c \in [default          : {<<"default.model">>},
             background       : {None, Some(<<"background.model">>)},
             think            : {None, Some(<<"think.model">>)},
             websearch        : {None, Some(<<"websearch.model">>)},
             auto_map_regex   : AutoMapPatterns,
             background_regex : BackgroundPatterns] :
        c.auto_map_regex = None \/ c.background_regex = None }

RouterIdle ==
    /\ config = [default |-> <<"default.model">>, background |-> None, think |-> None,
                 websearch |-> None, auto_map_regex |-> None, background_regex |-> None]
    /\ router = RouterNew(config)
    /\ request = [model |-> Glm, tools |-> None, thinking |-> None,
                  system |-> [kind |-> "none"],
                  messages |-> <<[role |-> "user", content |-> "hi"]>>, max_tokens |-> 1024]
    /\ incoming = request
    /\ decision = None
    /\ routes = 0

RouterInit ==
    /\ config \in RouterConfigs
    /\ router = RouterNew(config)
    /\ request \in Requests
    /\ incoming = request
    /\ decision = None
    /\ routes = 0

\* one call of Router::route on the request
Route ==
    /\ routes < MaxRoutes
    /\ LET r == RouteResult(config, router, request)
       IN  /\ request' = r.request
           /\ decision' = Some(r.decision)
    /\ incoming' = request
    /\ routes' = routes + 1
    /\ UNCHANGED <<config, router, registryVars, authVars, adapterVars>>


-----------------------------------------------------------------------------
(***************************************************************************)
(* The provider registry.  A HashMap is a function on the set of its keys. *)
(***************************************************************************)
EmptyMap == [k \in {} |-> None]

\* HashMap::insert: the value replaces the one already stored under the key
Insert(map, k, v) == [x \in (DOMAIN map) \cup {k} |-> IF x = k THEN v ELSE map[x]]

\* the provider_type tags new_from_app_state_deps constructs an adapter for
ProviderTypes ==
    {"openai", "anthropic", "z.ai", "minimax", "zenmux", "kimi-coding", "openrouter",
     "deepinfra", "novita", "baseten", "together", "fireworks", "groq", "nebius",
     "cerebras", "moonshot", "gemini", "vertex-ai"}

AnthropicCompatibleTypes == {"anthropic", "z.ai", "minimax", "zenmux", "kimi-coding"}

\* an entry counts as enabled only when enabled = true is written out
is_enabled_when_set(pc) == pc.enabled = Some(TRUE)

\* ProviderConfig::is_enabled
is_enabled(pc) == IF IsSome(pc.enabled) THEN Unwrap(pc.enabled) ELSE TRUE

\* ProviderConfig::get_auth_credential
get_auth_credential(pc) ==
    IF pc.auth_type = "ApiKey" THEN pc.api_key ELSE pc.oauth_provider

\* the adapter built from entry i of the configuration: what the constructors keep
NewAdapter(pc, i) ==
    [entry |-> i, provider_type |-> pc.provider_type, models |-> pc.models,
     oauth_provider |-> pc.oauth_provider]

\* an adapter that claims every model
supports_model_any(adapter, model) == TRUE

\* OpenAIProvider::supports_model and GeminiProvider::supports_model
supports_model(adapter, model) == \E i \in 1..Len(adapter.models) : adapter.models[i] = model

\* AnthropicCompatibleProvider::supports_model: an exact-match set
anthropic_supports_model(adapter, model) == model \in Range(adapter.models)

AdapterSupports(adapter, model) ==
    IF adapter.provider_type \in AnthropicCompatibleTypes
    THEN anthropic_supports_model(adapter, model)
    ELSE supports_model(adapter, model)

RECURSIVE InsertModels(_, _, _)
\* registry.rs 184-186: every declared model is entered under the provider's name
InsertModels(table, models, name) ==
    IF models = <<>> THEN table
    ELSE InsertModels(Insert(table, Head(models), name), Tail(models), name)

ConfigError(why) == [ok |-> FALSE, error |-> [kind |-> "ConfigError", why |-> why]]

\* registry.rs 181: the adapter is stored under its name, replacing any adapter
\* already stored under that name
AddAdapter(providers, pc, i) == Insert(providers, pc.name, NewAdapter(pc, i))

RECURSIVE AddProviders(_, _, _)
\* registry.rs 30-187: the loop over app_config.providers, from entry i on
AddProviders(ps, i, reg) ==
    IF i > Len(ps) THEN [ok |-> TRUE, registry |-> reg]
    ELSE IF ~is_enabled(ps[i]) THEN AddProviders(ps, i + 1, reg)
    ELSE IF ~IsSome(get_auth_credential(ps[i])) THEN ConfigError("missing credential")
    ELSE IF ps[i].provider_type \notin ProviderTypes THEN ConfigError("unknown provider type")
    ELSE AddProviders(ps, i + 1,
            [providers         |-> AddAdapter(reg.providers, ps[i], i),
             model_to_provider |-> InsertModels(reg.model_to_provider, ps[i].models,
                                                ps[i].name)])

\* a table in which a model that already has an entry keeps it
RecordMappingKeep(table, name, provider) ==
    IF name \in DOMAIN table THEN table ELSE Insert(table, name, provider)

\* registry.rs 198: the mapping's provider is entered under the model's name
RecordMapping(table, name, provider) == Insert(table, name, provider)

\* a loop that passes over the mappings whose provider has no adapter
RECURSIVE AddMappingsSkipUnknown(_, _, _)
AddMappingsSkipUnknown(reg, name, mappings) ==
    IF mappings = <<>> THEN [ok |-> TRUE, registry |-> reg]
    ELSE IF Head(mappings).provider \notin DOMAIN reg.providers
         THEN AddMappingsSkipUnknown(reg, name, Tail(mappings))
    ELSE AddMappingsSkipUnknown([reg EXCEPT !.model_to_provider =
                                    RecordMapping(reg.model_to_provider, name, Head(mappings).provider)],
                                name, Tail(mappings))

\* registry.rs 191-199, one [[models]] entry: which of the entry's mappings the
\* table records - each mapping in turn overwrites the entry, so the last one stays
RECURSIVE AddMappings(_, _, _)
AddMappings(reg, name, mappings) ==
    IF mappings = <<>> THEN [ok |-> TRUE, registry |-> reg]
    ELSE IF Head(mappings).provider \notin DOMAIN reg.providers
         THEN ConfigError("unknown provider")
    ELSE AddMappings([reg EXCEPT !.model_to_provider =
                            RecordMapping(reg.model_to_provider, name, Head(mappings).provider)],
                     name, Tail(mappings))

RECURSIVE AddModelConfigs(_, _)
\* registry.rs 190-200: the loop over app_config.models
AddModelConfigs(reg, ms) ==
    IF ms = <<>> THEN [ok |-> TRUE, registry |-> reg]
    ELSE LET r == AddMappings(reg, Head(ms).name, Head(ms).mappings)
         IN  IF r.ok THEN AddModelConfigs(r.registry, Tail(ms)) ELSE r

\* ProviderRegistry::new_from_app_state_deps
new_from_app_state_deps(cfg) ==
    LET r == AddProviders(cfg.providers, 1,
                          [providers |-> EmptyMap, model_to_provider |-> EmptyMap])
    IN  IF r.ok THEN AddModelConfigs(r.registry, cfg.models) ELSE r

\* ProviderRegistry::get_provider_for_model: the results the call can return (the
\* fallback loop visits the adapters in the HashMap's order, which is arbitrary)
get_provider_for_model(reg, model) ==
    IF /\ model \in DOMAIN reg.model_to_provider
       /\ reg.model_to_provider[model] \in DOMAIN reg.providers
    THEN {[ok |-> TRUE, via |-> "table", name |-> reg.model_to_provider[model],
           adapter |-> reg.providers[reg.model_to_provider[model]]]}
    ELSE IF \E n \in DOMAIN reg.providers : AdapterSupports(reg.providers[n], model)
    THEN {[ok |-> TRUE, via |-> "scan", name |-> n, adapter |-> reg.providers[n]] :
            n \in {k \in DOMAIN reg.providers : AdapterSupports(reg.providers[k], model)}}
    ELSE {[ok |-> FALSE, error |-> [kind |-> "ModelNotSupported", model |-> model]]}

\* ProviderRegistry::get_provider
get_provider(reg, name) ==
    IF name \in DOMAIN reg.providers THEN Some(reg.providers[name]) ELSE None

\* the provider names taken from the shared configuration at the time of the call
list_providers_live(reg) ==
    {shared_config.providers[i].name :
        i \in {k \in 1..Len(shared_config.providers) : is_enabled(shared_config.providers[k])}}

\* ProviderRegistry::list_models, ProviderRegistry::list_providers
list_models(reg)    == DOMAIN reg.model_to_provider
list_providers(reg) == DOMAIN reg.providers


-----------------------------------------------------------------------------
(* The configurations the registry is built from. *)
MaxProviders == 2
MaxMappings  == 2

SeqsUpTo(S, n) == UNION {[1..k -> S] : k \in 0..n}

ModelIds == {"m1", "m2", "m3"}

Provider(name, type, auth, key, oauth, models, enabled) ==
    [name |-> name, provider_type |-> type, auth_type |-> auth, api_key |-> key,
     oauth_provider |-> oauth, models |-> models, enabled |-> enabled]

ProviderConfigs ==
    { Provider("p1", "openai", "ApiKey", Some("key"), None, <<"m1">>, None),
      Provider("p2", "gemini", "OAuth", None, Some("google"), <<"m1", "m2">>, Some(TRUE)),
      Provider("p1", "anthropic", "ApiKey", Some("key"), None, <<"m2">>, Some(TRUE)),
      Provider("p2", "openai", "ApiKey", Some("key"), None, <<"m2">>, Some(FALSE)),
      \* broken entries: an unknown type and a missing credential, disabled and enabled
      Provider("p2", "llama", "ApiKey", None, None, <<"m2">>, Some(FALSE)),
      Provider("p2", "llama", "ApiKey", Some("key"), None, <<"m2">>, None),
      Provider("p1", "openai", "ApiKey", None, Some("google"), <<"m1">>, Some(TRUE)) }

Mappings ==
    { [priority |-> 1, provider |-> "p1"], [priority |-> 2, provider |-> "p1"],
      [priority |-> 1, provider |-> "p2"], [priority |-> 2, provider |-> "p2"],
      [priority |-> 1, provider |-> "p3"] }

ModelSections ==
    {<<>>} \cup {<<[name |-> m, mappings |-> ms]>> :
                    m \in {"m1", "m3"}, ms \in SeqsUpTo(Mappings, MaxMappings)}

AppConfigs ==
    [providers : SeqsUpTo(ProviderConfigs, MaxProviders), models : ModelSections]

\* the configuration after a write through the lock: a provider entry pushed (as
\* the registry's own test does), the last entry removed, every entry disabled, an
\* entry's models changed, the [[models]] table cleared or given a new entry
ConfigEdits(cfg) ==
    { [cfg EXCEPT !.providers =
            Append(@, Provider("p3", "openai", "ApiKey", Some("key"), None, <<"m3">>, Some(TRUE)))],
      [cfg EXCEPT !.providers = SubSeq(@, 1, Len(@) - 1)],
      [cfg EXCEPT !.providers = [i \in 1..Len(@) |-> [@[i] EXCEPT !.enabled = Some(FALSE)]]],
      [cfg EXCEPT !.providers = [i \in 1..Len(@) |-> [@[i] EXCEPT !.models = <<"m3">>]]],
      [cfg EXCEPT !.models = <<>>],
      [cfg EXCEPT !.models = Append(@, [name |-> "m2",
                                        mappings |-> <<[priority |-> 1, provider |-> "p1"]>>])] }

RegistryIdle ==
    /\ app_config = [providers |-> <<>>, models |-> <<>>]
    /\ shared_config = app_config
    /\ registry = None
    /\ build_error = None
    /\ lookup = None

RegistryInit ==
    /\ app_config \in AppConfigs
    /\ shared_config = app_config
    /\ registry = None
    /\ build_error = None
    /\ lookup = None

\* the registry is built once, at startup, from what the lock holds then
Build ==
    /\ registry = None /\ build_error = None
    /\ shared_config = app_config
    /\ LET r == new_from_app_state_deps(app_config)
       IN  IF r.ok
           THEN registry' = Some(r.registry) /\ build_error' = None
           ELSE registry' = None /\ build_error' = Some(r.error)
    /\ UNCHANGED <<app_config, shared_config, lookup, routerVars, authVars, adapterVars>>

\* a get_provider_for_model call on the built registry
Lookup ==
    /\ IsSome(registry)
    /\ \E m \in ModelIds :
         \E r \in get_provider_for_model(Unwrap(registry), m) :
            lookup' = Some([model |-> m, result |-> r])
    /\ UNCHANGED <<app_config, shared_config, registry, build_error, routerVars, authVars,
                   adapterVars>>

\* a writer takes AppState.config's write lock after the build has returned and
\* edits the configuration the registry was built from
ConfigChange ==
    /\ IsSome(registry)
    /\ shared_config' \in ConfigEdits(app_config) \ {shared_config}
    /\ UNCHANGED <<app_config, registry, build_error, lookup, routerVars, authVars, adapterVars>>


-----------------------------------------------------------------------------
(***************************************************************************)
(* The token store.  Time is counted in minutes.  The file at file_path is *)
(*   [kind |-> "absent"]                    no file                        *)
(*   [kind |-> "json", object |-> o]        a complete JSON object         *)
(*   [kind |-> "partial"]                   an empty or cut-off write      *)
(***************************************************************************)
RefreshBufferMinutes == 5

\* a token counts as in need of refresh only once it is inside the buffer
needs_refresh_inside(token, t) == t + RefreshBufferMinutes > token.expires_at

\* OAuthToken::is_expired, OAuthToken::needs_refresh
is_expired(token, t)    == t >= token.expires_at
needs_refresh(token, t) == t + RefreshBufferMinutes >= token.expires_at

\* DateTime<Utc> as serde writes and reads it: the whole seconds and the fraction
FormatTime(t) == [seconds |-> t \div 10, fraction |-> t % 10]
ParseTime(j)  == j.seconds * 10 + j.fraction

\* a serializer that always skips enterprise_url
TokenToJsonNoUrl(token) ==
    [provider_id   |-> token.provider_id,
     access_token  |-> token.access_token,
     refresh_token |-> token.refresh_token,
     expires_at    |-> FormatTime(token.expires_at)]

\* #[derive(Serialize)] for OAuthToken: enterprise_url is skipped when it is None
TokenToJson(token) ==
    LET always == [provider_id   |-> token.provider_id,
                   access_token  |-> token.access_token,
                   refresh_token |-> token.refresh_token,
                   expires_at    |-> FormatTime(token.expires_at)]
    IN  IF IsSome(token.enterprise_url)
        THEN [f \in (DOMAIN always) \cup {"enterprise_url"} |->
                 IF f = "enterprise_url" THEN Unwrap(token.enterprise_url) ELSE always[f]]
        ELSE always

\* #[derive(Deserialize)] for OAuthToken: a missing Option field is None
TokenFromJson(j) ==
    [provider_id    |-> j.provider_id,
     access_token   |-> j.access_token,
     refresh_token  |-> j.refresh_token,
     expires_at     |-> ParseTime(j.expires_at),
     enterprise_url |-> IF "enterprise_url" \in DOMAIN j THEN Some(j.enterprise_url) ELSE None]

\* serde_json::to_string_pretty(&HashMap<String, OAuthToken>)
MapToJson(map) == [k \in DOMAIN map |-> TokenToJson(map[k])]
\* serde_json::from_str::<HashMap<String, OAuthToken>>
MapFromJson(o) == [k \in DOMAIN o |-> TokenFromJson(o[k])]

\* a load that answers a file it cannot parse with an empty store
TokenStoreNewLenient(f) ==
    CASE f.kind = "json" -> [ok |-> TRUE, tokens |-> MapFromJson(f.object)]
      [] OTHER           -> [ok |-> TRUE, tokens |-> EmptyMap]

\* TokenStore::new: Ok(the map loaded) or Err
TokenStoreNew(f) ==
    CASE f.kind = "absent" -> [ok |-> TRUE, tokens |-> EmptyMap]
      [] f.kind = "json"   -> [ok |-> TRUE, tokens |-> MapFromJson(f.object)]
      [] OTHER             -> [ok |-> FALSE, error |-> "Failed to parse token file"]

\* TokenStore::get
Get(map, id) == IF id \in DOMAIN map THEN Some(map[id]) ELSE None

\* a remove that clears the whole map
RemoveKeyAll(map, id) == EmptyMap

\* HashMap::remove
RemoveKey(map, id) == [k \in (DOMAIN map) \ {id} |-> map[k]]

\* how a persist can end: the write and chmod succeed; the file cannot be opened;
\* the file is opened (and so truncated) and nothing is written; the write stops
\* part-way; the write succeeds and setting the permissions fails
PersistOutcomes == {"ok", "open_failed", "write_none", "write_failed", "chmod_failed"}

\* TokenStore::persist of the map over the file f: [ok, file]
Persist(map, f, outcome) ==
    CASE outcome = "ok"           -> [ok |-> TRUE,  file |-> [kind |-> "json", object |-> MapToJson(map)]]
      [] outcome = "open_failed"  -> [ok |-> FALSE, file |-> f]
      [] outcome = "write_none"   -> [ok |-> FALSE, file |-> [kind |-> "empty"]]
      [] outcome = "write_failed" -> [ok |-> FALSE, file |-> [kind |-> "partial"]]
      [] OTHER                    -> [ok |-> FALSE, file |-> [kind |-> "json", object |-> MapToJson(map)]]

\* a save that takes its change back when the persist fails
SaveResultRollback(map, f, token, outcome) ==
    LET updated == Insert(map, token.provider_id, token)
        p       == Persist(updated, f, outcome)
    IN  [ok |-> p.ok, tokens |-> IF p.ok THEN updated ELSE map, file |-> p.file]

\* TokenStore::save: the map is updated, then persisted: [ok, tokens, file]
SaveResult(map, f, token, outcome) ==
    LET updated == Insert(map, token.provider_id, token)
        p       == Persist(updated, f, outcome)
    IN  [ok |-> p.ok, tokens |-> updated, file |-> p.file]

\* TokenStore::remove: [ok, tokens, file]
RemoveResult(map, f, id, outcome) ==
    LET updated == RemoveKey(map, id)
        p       == Persist(updated, f, outcome)
    IN  [ok |-> p.ok, tokens |-> updated, file |-> p.file]


-----------------------------------------------------------------------------
(***************************************************************************)
(* The OAuth client and the adapters' get_auth_header.  A call is a        *)
(* sequence of steps separated by the awaits of the code; the calls of     *)
(* different callers interleave.                                           *)
(***************************************************************************)
\* oauth.rs 212-227: what the POST to the token URL can come back with
RefreshFailures == {"network_error", "status_401", "bad_body"}

\* oauth.rs 209: the expires_in of an answer, in minutes (an i64 the code takes as sent)
ExpiresIns == {1, 60}

\* the answers of the token URL
RefreshResponses ==
    {[kind |-> k] : k \in RefreshFailures}
    \cup {[kind |-> "ok", access_token |-> a, refresh_token |-> "rt2", expires_in |-> e] :
            a \in {"at2", "at3"}, e \in ExpiresIns}

\* a refresh that drops the stored record when the token URL rejects the request
RefreshCompleteDropping(map, f, id, existing, response, t, persist) ==
    IF response.kind = "status_401"
    THEN LET r == RemoveResult(map, f, id, "ok")
         IN  [ok |-> FALSE, outcome |-> response.kind, tokens |-> r.tokens, file |-> r.file]
    ELSE IF response.kind \in RefreshFailures
    THEN [ok |-> FALSE, outcome |-> response.kind, tokens |-> map, file |-> f]
    ELSE LET token == [provider_id    |-> id,
                       access_token   |-> response.access_token,
                       refresh_token  |-> response.refresh_token,
                       expires_at     |-> t + response.expires_in,
                       enterprise_url |-> existing.enterprise_url]
             saved == SaveResult(map, f, token, persist)
         IN  [ok |-> saved.ok, outcome |-> IF saved.ok THEN "ok" ELSE "save_failed",
              tokens |-> saved.tokens, file |-> saved.file, token |-> token]

\* oauth.rs 218-242, refresh_token from the response on: the response is checked and
\* parsed, the new record is built and saved: [ok, outcome, tokens, file, token]
RefreshComplete(map, f, id, existing, response, t, persist) ==
    IF response.kind \in RefreshFailures
    THEN [ok |-> FALSE, outcome |-> response.kind, tokens |-> map, file |-> f]
    ELSE LET token == [provider_id    |-> id,
                       access_token   |-> response.access_token,
                       refresh_token  |-> response.refresh_token,
                       expires_at     |-> t + response.expires_in,
                       enterprise_url |-> existing.enterprise_url]
             saved == SaveResult(map, f, token, persist)
         IN  [ok |-> saved.ok, outcome |-> IF saved.ok THEN "ok" ELSE "save_failed",
              tokens |-> saved.tokens, file |-> saved.file, token |-> token]

\* a call that goes on with the token it read before the refresh
TokenAfterRefreshStale(read, refreshed) == read.access_token

\* openai.rs 520-523, gemini.rs 130-133, oauth.rs 251-252: the access token a call
\* goes on with after a refresh
TokenAfterRefresh(read, refreshed) == refreshed.access_token

\* openai.rs 532-533, gemini.rs 141-143, oauth.rs 254: the token is still valid
TokenWithoutRefresh(read) == read.access_token

IdleCall ==
    [pc |-> "idle", kind |-> "adapter", stale |-> FALSE, read |-> None, existing |-> None,
     posts |-> 0, refreshed |-> None, token |-> None, presented |-> None, error |-> None]


-----------------------------------------------------------------------------
(* The token store on its own: save, remove and a second load of the file. *)
Callers == {"c1", "c2"}

Token(id, access, refresh, expires, url) ==
    [provider_id |-> id, access_token |-> access, refresh_token |-> refresh,
     expires_at |-> expires, enterprise_url |-> url]

StoreTokens ==
    { Token("a", "at1", "rt1", 17, None),
      Token("a", "at2", "rt2", 23, Some("https://ghe.example")),
      Token("b", "bt1", "rt1", 9, Some("")),
      Token("b", "bt2", "rt2", 30, None) }

StoreIds == {"a", "b"}

\* the files a store is started on: none, an empty object, one record
StoreFiles ==
    {[kind |-> "absent"], [kind |-> "json", object |-> MapToJson(EmptyMap)]}
    \cup {[kind |-> "json", object |-> MapToJson(Insert(EmptyMap, t.provider_id, t))] :
            t \in StoreTokens}

AuthIdle ==
    /\ tokens = EmptyMap
    /\ file = [kind |-> "absent"]
    /\ now = 0
    /\ last_op = [op |-> "none"]
    /\ reloaded = None
    /\ calls = [c \in Callers |-> IdleCall]

StoreInit ==
    /\ file \in StoreFiles
    /\ tokens = TokenStoreNew(file).tokens
    /\ now = 0
    /\ last_op = [op |-> "none"]
    /\ reloaded = None
    /\ calls = [c \in Callers |-> IdleCall]

\* TokenStore::save(token)
Save ==
    /\ \E t \in StoreTokens, outcome \in PersistOutcomes :
         LET r == SaveResult(tokens, file, t, outcome)
         IN  /\ tokens' = r.tokens
             /\ file' = r.file
             /\ last_op' = [op |-> "save", token |-> t, ok |-> r.ok, outcome |-> outcome,
                            before |-> tokens, file_before |-> file]
    /\ reloaded' = None
    /\ UNCHANGED <<now, calls, routerVars, registryVars, adapterVars>>

\* TokenStore::remove(provider_id), for a provider_id of ids and a persist that
\* ends as one of outcomes
RemoveWith(ids, outcomes) ==
    /\ \E id \in ids, outcome \in outcomes :
         LET r == RemoveResult(tokens, file, id, outcome)
         IN  /\ tokens' = r.tokens
             /\ file' = r.file
             /\ last_op' = [op |-> "remove", id |-> id, ok |-> r.ok, outcome |-> outcome,
                            before |-> tokens, file_before |-> file]
    /\ reloaded' = None
    /\ UNCHANGED <<now, calls, routerVars, registryVars, adapterVars>>

Remove == RemoveWith(StoreIds, PersistOutcomes)

\* TokenStore::new on the path of the running store: a second store is loaded
Reload ==
    /\ reloaded = None
    /\ reloaded' = Some(TokenStoreNew(file))
    /\ UNCHANGED <<tokens, file, now, last_op, calls, routerVars, registryVars, adapterVars>>

\* TokenStore::list_providers
store_list_providers(map) == DOMAIN map

\* TokenStore::all
store_all(map) == map

\* TokenStore::get, list_providers and all: the map is read under the read lock
Read ==
    /\ \/ \E id \in StoreIds :
             last_op' = [op |-> "get", id |-> id, result |-> Get(tokens, id),
                         before |-> tokens, file_before |-> file]
       \/ last_op' = [op |-> "list_providers", result |-> store_list_providers(tokens),
                      before |-> tokens, file_before |-> file]
       \/ last_op' = [op |-> "all", result |-> store_all(tokens),
                      before |-> tokens, file_before |-> file]
    /\ UNCHANGED <<tokens, file, now, reloaded, calls, routerVars, registryVars, adapterVars>>

\* OAuthClient::refresh_token(id) on the store, run from its get to its save, for
\* the record of one provider, a rejected and an accepted refresh
RefreshStored ==
    /\ \E id \in {"a"}, persist \in {"ok", "write_failed"},
          response \in {r \in RefreshResponses :
                          r.kind = "status_401" \/ (r.kind = "ok" /\ r.access_token = "at2")} :
         LET existing == Get(tokens, id)
         IN  IF ~IsSome(existing)
             THEN /\ last_op' = [op |-> "refresh", id |-> id, outcome |-> "no_token",
                                 before |-> tokens, file_before |-> file]
                  /\ UNCHANGED <<tokens, file>>
             ELSE LET r == RefreshComplete(tokens, file, id, Unwrap(existing),
                                           response, now, persist)
                  IN  /\ tokens' = r.tokens
                      /\ file' = r.file
                      /\ last_op' = [op |-> "refresh", id |-> id, outcome |-> r.outcome,
                                     before |-> tokens, file_before |-> file]
    /\ reloaded' = None
    /\ UNCHANGED <<now, calls, routerVars, registryVars, adapterVars>>


-----------------------------------------------------------------------------
(* Calls of OAuth-bound adapters and of get_valid_token on one stored token. *)
MaxNow == 2

OAuthId == "a"

\* the record stored at startup: stale from the start, or fresh at first
OAuthStartTokens ==
    {Token(OAuthId, "at1", "rt1", e, Some("https://ghe.example")) : e \in {4, 7}}

OAuthInit ==
    /\ \E t \in OAuthStartTokens :
          /\ tokens = Insert(EmptyMap, OAuthId, t)
          /\ file = [kind |-> "json", object |-> MapToJson(tokens)]
    /\ now = 0
    /\ last_op = [op |-> "none"]
    /\ reloaded = None
    /\ calls = [c \in Callers |-> IdleCall]

\* the stored token is deleted while calls are under way
Revoke == RemoveWith({OAuthId}, {"ok"})

\* time passes
Tick ==
    /\ now < MaxNow
    /\ now' = now + 1
    /\ UNCHANGED <<tokens, file, last_op, reloaded, calls, routerVars, registryVars, adapterVars>>

\* get_auth_header (openai.rs 505-550, gemini.rs 116-153) and get_valid_token
\* (oauth.rs 246-250) up to the decision to refresh: the stored record is read
CallStart(c) ==
    /\ calls[c].pc = "idle"
    /\ \E kind \in {"adapter", "get_valid_token"} :
         LET read == Get(tokens, OAuthId)
         IN  calls' = [calls EXCEPT ![c] =
                IF ~IsSome(read)
                THEN [@ EXCEPT !.pc = "failed", !.kind = kind, !.error = Some("no token found")]
                ELSE IF needs_refresh(Unwrap(read), now)
                THEN [@ EXCEPT !.pc = "refresh", !.kind = kind, !.read = read, !.stale = TRUE]
                ELSE [@ EXCEPT !.pc = "ready", !.kind = kind, !.read = read, !.stale = FALSE,
                               !.token = Some(TokenWithoutRefresh(Unwrap(read)))]]
    /\ UNCHANGED <<tokens, file, now, last_op, reloaded, routerVars, registryVars, adapterVars>>

\* refresh_token up to its await (oauth.rs 188-217): the record is read again and the
\* refresh request is posted to the token URL
RefreshBegin(c) ==
    /\ calls[c].pc = "refresh"
    /\ LET existing == Get(tokens, OAuthId)
       IN  calls' = [calls EXCEPT ![c] =
              IF ~IsSome(existing)
              THEN [@ EXCEPT !.pc = "failed", !.error = Some("no token found")]
              ELSE [@ EXCEPT !.pc = "posted", !.existing = existing, !.posts = @ + 1]]
    /\ UNCHANGED <<tokens, file, now, last_op, reloaded, routerVars, registryVars, adapterVars>>

\* refresh_token from the response on (oauth.rs 218-242) and the caller's match on
\* its result (openai.rs 519-530, gemini.rs 129-140, oauth.rs 251-252)
RefreshEnd(c) ==
    /\ calls[c].pc = "posted"
    /\ \E response \in RefreshResponses, persist \in PersistOutcomes :
         LET r == RefreshComplete(tokens, file, OAuthId, Unwrap(calls[c].existing),
                                  response, now, persist)
         IN  /\ tokens' = r.tokens
             /\ file' = r.file
             /\ last_op' = [op |-> "refresh", caller |-> c, outcome |-> r.outcome,
                            before |-> tokens, file_before |-> file]
             /\ calls' = [calls EXCEPT ![c] =
                   IF r.ok
                   THEN [@ EXCEPT !.pc = "ready", !.refreshed = Some(r.token),
                                  !.token = Some(TokenAfterRefresh(Unwrap(calls[c].read), r.token))]
                   ELSE [@ EXCEPT !.pc = "failed", !.error = Some(r.outcome)]]
    /\ reloaded' = None
    /\ UNCHANGED <<now, routerVars, registryVars, adapterVars>>

\* the adapter sends the upstream request with the token in its Authorization
\* header (openai.rs 869-904, gemini.rs 477-493); get_valid_token returns it
UpstreamSend(c) ==
    /\ calls[c].pc = "ready"
    /\ calls' = [calls EXCEPT ![c] =
          IF @.kind = "adapter"
          THEN [@ EXCEPT !.pc = "sent", !.presented = calls[c].token]
          ELSE [@ EXCEPT !.pc = "returned"]]
    /\ UNCHANGED <<tokens, file, now, last_op, reloaded, routerVars, registryVars, adapterVars>>

\* ---- the two predicates of a record, asked at any time of its life
\* the expiry times of the record: around the buffer, and an hour away
ExpiryTimes == (0..14) \cup {60, 62}

ExpiryInit ==
    /\ \E e \in ExpiryTimes : tokens = Insert(EmptyMap, OAuthId, Token(OAuthId, "at1", "rt1", e, None))
    /\ file = [kind |-> "absent"]
    /\ now = 0
    /\ last_op = [op |-> "none"]
    /\ reloaded = None
    /\ calls = [c \in Callers |-> IdleCall]

\* token.is_expired() and token.needs_refresh() are called on the stored record
CheckExpiry ==
    /\ last_op' = [op |-> "check", at |-> now, token |-> tokens[OAuthId],
                   is_expired |-> is_expired(tokens[OAuthId], now),
                   needs_refresh |-> needs_refresh(tokens[OAuthId], now)]
    /\ UNCHANGED <<tokens, file, now, reloaded, calls, routerVars, registryVars, adapterVars>>

-----------------------------------------------------------------------------
(***************************************************************************)
(* Concurrent save and remove calls on the clones of one TokenStore, whose *)
(* file writes succeed.  The clones share tokens: Arc<RwLock<HashMap>>.  A *)
(* call takes the write lock, changes the map and drops the lock; persist  *)
(* then takes a read lock, serializes the map, and with the lock still     *)
(* held truncates the file and writes the text (fs::write).                *)
(***************************************************************************)
MaxCalls == 2

\* the callers inside the write lock, and those holding a read lock
Writers == {c \in Callers : calls[c].pc = "writing"}
Readers == {c \in Callers : calls[c].pc \in {"serialized", "truncated"}}

\* a write lock that is granted while read locks are held
WriteLockFreeOfWriters(writers, readers) == writers = {}

\* RwLock::write is granted when no other lock is held, RwLock::read when no write
\* lock is held
WriteLockFree(writers, readers) == writers = {} /\ readers = {}
ReadLockFree(writers)           == writers = {}

\* returned counts the caller's finished calls; overlapped tells whether one of its
\* persists emptied the file while another persist held its read lock
IdleSharedCall == [pc |-> "idle", returned |-> 0, overlapped |-> FALSE]

SharedInit ==
    /\ file \in StoreFiles
    /\ tokens = TokenStoreNew(file).tokens
    /\ now = 0
    /\ last_op = [op |-> "none"]
    /\ reloaded = None
    /\ calls = [c \in Callers |-> IdleSharedCall]

\* save(token) or remove(id) is called and gets the write lock (token_store.rs 90, 109)
LockForWrite(c) ==
    /\ calls[c].pc = "idle"
    /\ calls[c].returned < MaxCalls
    /\ WriteLockFree(Writers, Readers)
    /\ \/ \E t \in StoreTokens :
             calls' = [calls EXCEPT ![c] = [pc |-> "writing", returned |-> @.returned,
                                            overlapped |-> @.overlapped,
                                            op |-> "save", token |-> t]]
       \/ \E id \in StoreIds :
             calls' = [calls EXCEPT ![c] = [pc |-> "writing", returned |-> @.returned,
                                            overlapped |-> @.overlapped,
                                            op |-> "remove", id |-> id]]
    /\ UNCHANGED <<tokens, file, now, last_op, reloaded, routerVars, registryVars, adapterVars>>

\* the map is changed and the write lock dropped (token_store.rs 89-92, 108-111)
Mutate(c) ==
    /\ calls[c].pc = "writing"
    /\ tokens' = IF calls[c].op = "save"
                 THEN Insert(tokens, calls[c].token.provider_id, calls[c].token)
                 ELSE RemoveKey(tokens, calls[c].id)
    /\ calls' = [calls EXCEPT ![c] = [@ EXCEPT !.pc = "mutated"]]
    /\ last_op' = [op |-> calls[c].op, caller |-> c]
    /\ UNCHANGED <<file, now, reloaded, routerVars, registryVars, adapterVars>>

\* persist takes a read lock and serializes the map (token_store.rs 133-135)
Serialize(c) ==
    /\ calls[c].pc = "mutated"
    /\ ReadLockFree(Writers)
    /\ calls' = [calls EXCEPT ![c] = [pc |-> "serialized", returned |-> @.returned,
                                      overlapped |-> @.overlapped,
                                      op |-> @.op, json |-> MapToJson(tokens)]]
    /\ UNCHANGED <<tokens, file, now, last_op, reloaded, routerVars, registryVars, adapterVars>>

\* fs::write opens the file, which empties it (token_store.rs 137)
Truncate(c) ==
    /\ calls[c].pc = "serialized"
    /\ file' = [kind |-> "empty"]
    /\ calls' = [calls EXCEPT ![c] = [@ EXCEPT !.pc = "truncated",
                                              !.overlapped = @ \/ (Readers \ {c} # {})]]
    /\ UNCHANGED <<tokens, now, last_op, reloaded, routerVars, registryVars, adapterVars>>

\* fs::write writes the text; the permissions are set, the read lock is dropped and
\* the call returns Ok (token_store.rs 137-149)
WriteAndReturn(c) ==
    /\ calls[c].pc = "truncated"
    /\ file' = [kind |-> "json", object |-> calls[c].json]
    /\ calls' = [calls EXCEPT ![c] = [pc |-> "idle", returned |-> @.returned + 1,
                                      overlapped |-> @.overlapped]]
    /\ UNCHANGED <<tokens, now, last_op, reloaded, routerVars, registryVars, adapterVars>>

-----------------------------------------------------------------------------
(***************************************************************************)
(* The Gemini adapter: the cleaning of tool schemas and the retry loop of  *)
(* the unary send_message.  A serde_json::Value is a tagged record.        *)
(***************************************************************************)
JNull   == [t |-> "null"]
JStr(x) == [t |-> "string", v |-> x]
JObj(m) == [t |-> "object", m |-> m]
JArr(a) == [t |-> "array", a |-> a]

\* gemini.rs 33-40: the keys clean_json_schema removes
RemovedKeys ==
    {"$schema", "$id", "$ref", "$comment", "exclusiveMinimum", "exclusiveMaximum",
     "definitions", "$defs"}

\* a cleaning that stops at the top level
clean_json_schema_shallow(value) ==
    IF value.t = "object"
    THEN JObj([k \in (DOMAIN value.m) \ RemovedKeys |-> value.m[k]])
    ELSE value

\* clean_json_schema (gemini.rs 29-55): the value after the in-place cleaning
RECURSIVE clean_json_schema(_)
clean_json_schema(value) ==
    CASE value.t = "object" ->
            JObj([k \in (DOMAIN value.m) \ RemovedKeys |-> clean_json_schema(value.m[k])])
      [] value.t = "array" ->
            JArr([i \in 1..Len(value.a) |-> clean_json_schema(value.a[i])])
      [] OTHER -> value

\* f64 values in thousandths; what str::parse::<f64> gives for the number texts
ParseF64(text) ==
    CASE text = "3"   -> Some([class |-> "finite", thousandths |-> 3000])
      [] text = "0.5" -> Some([class |-> "finite", thousandths |-> 500])
      [] text = "900" -> Some([class |-> "finite", thousandths |-> 900000])
      [] text = "-1"  -> Some([class |-> "finite", thousandths |-> -1000])
      [] text = "NaN" -> Some([class |-> "nan"])
      [] text = "inf" -> Some([class |-> "inf"])
      [] OTHER        -> None

\* what `f64::INFINITY as u64` saturates to: u64::MAX, held here as the largest
\* integer of the model
U64Max == 2147483647

\* parse_retry_delay (gemini.rs 938-946) of <<number text, unit>>: a Duration in
\* milliseconds, no Duration, or the panic of Duration::from_secs_f64 on a negative
\* or non-finite number of seconds
parse_retry_delay(duration) ==
    LET number == ParseF64(duration[1])
        unit   == duration[2]
    IN  IF unit = "ms"
        THEN IF ~IsSome(number) THEN [kind |-> "none"]
             ELSE IF Unwrap(number).class = "nan" THEN [kind |-> "some", ms |-> 0]
             ELSE IF Unwrap(number).class = "inf" THEN [kind |-> "some", ms |-> U64Max]
             ELSE IF Unwrap(number).thousandths < 0 THEN [kind |-> "some", ms |-> 0]
             ELSE [kind |-> "some", ms |-> Unwrap(number).thousandths \div 1000]
        ELSE IF unit = "s"
        THEN IF ~IsSome(number) THEN [kind |-> "none"]
             ELSE IF Unwrap(number).class # "finite" THEN [kind |-> "panic"]
             ELSE IF Unwrap(number).thousandths < 0 THEN [kind |-> "panic"]
             ELSE [kind |-> "some", ms |-> Unwrap(number).thousandths]
        ELSE [kind |-> "none"]

\* gemini.rs 953-960: the first RetryInfo detail whose retryDelay parses
RECURSIVE FirstRetryInfo(_, _)
FirstRetryInfo(details, i) ==
    IF i > Len(details) THEN [kind |-> "none"]
    ELSE IF details[i].type = "RetryInfo"
              /\ parse_retry_delay(details[i].retry_delay).kind # "none"
         THEN parse_retry_delay(details[i].retry_delay)
         ELSE FirstRetryInfo(details, i + 1)

\* gemini.rs 963-978: the first ErrorInfo detail of a Code Assist rate limit
RECURSIVE FirstRateLimitInfo(_, _)
FirstRateLimitInfo(details, i) ==
    IF i > Len(details) THEN [kind |-> "none"]
    ELSE IF /\ details[i].type = "ErrorInfo"
            /\ details[i].reason = "RATE_LIMIT_EXCEEDED"
            /\ "cloudcode-pa.googleapis.com" \in Range(details[i].domain)
         THEN LET reset == details[i].quotaResetDelay
                  parsed == IF IsSome(reset) THEN parse_retry_delay(Unwrap(reset))
                            ELSE [kind |-> "none"]
              IN  IF parsed.kind = "none" THEN [kind |-> "some", ms |-> 10000] ELSE parsed
         ELSE FirstRateLimitInfo(details, i + 1)

\* extract_retry_delay (gemini.rs 949-981)
extract_retry_delay(body) ==
    IF body.kind # "error_json" THEN [kind |-> "none"]
    ELSE LET first == FirstRetryInfo(body.details, 1)
         IN  IF first.kind # "none" THEN first ELSE FirstRateLimitInfo(body.details, 1)

\* gemini.rs 492, 575: the max_retries send_message passes to the retry loop
MaxRetries == 3

ApiError(status, message) == [kind |-> "ApiError", status |-> status, message |-> message]

\* gemini.rs 381: another attempt is made while retries < max_retries
RetryAllowed(retries, max_retries) == retries < max_retries

\* a loop that takes a server error for a rate limit as well
IsRateLimitOrServerError(status) == status \in {429, 500}

\* gemini.rs 377: response.status().as_u16() == 429
IsRateLimit(status) == status = 429

\* handle_rate_limit_retry (gemini.rs 362-406), one turn of its loop on the answer
\* to request_fn: "retry" with the delay to sleep, "return" with the Result, or
\* "panic"
RetryLoopTurn(response, retries, max_retries) ==
    IF response.kind = "transport_error"
    THEN [do |-> "return", result |-> [ok |-> FALSE, error |-> [kind |-> "HttpError"]]]
    ELSE IF IsRateLimit(response.status)
    THEN LET delay == extract_retry_delay(response.body)
         IN  IF delay.kind = "panic" THEN [do |-> "panic"]
             ELSE IF delay.kind = "some"
             THEN IF RetryAllowed(retries, max_retries)
                  THEN [do |-> "retry", delay |-> delay.ms]
                  ELSE [do |-> "return",
                        result |-> [ok |-> FALSE, error |-> ApiError(429, response.body)]]
             ELSE [do |-> "return",
                   result |-> [ok |-> FALSE, error |-> ApiError(429, response.body)]]
    ELSE [do |-> "return", result |-> [ok |-> TRUE, response |-> response]]

\* send_message after the retry loop returned Ok(response) (gemini.rs 495-526,
\* 579-594): an unsuccessful status is an ApiError, with a message of its own for a
\* 404 of the Code Assist API; a successful one is parsed
AfterRetryLoop(path, response) ==
    IF response.status \notin 200..299
    THEN IF path = "code_assist" /\ response.status = 404
         THEN [ok |-> FALSE, error |-> ApiError(404, [kind |-> "model_not_found", original |-> response.body])]
         ELSE [ok |-> FALSE, error |-> ApiError(response.status, response.body)]
    ELSE IF response.body.kind = "gemini_response"
         THEN [ok |-> TRUE, message |-> response.body]
         ELSE [ok |-> FALSE, error |-> [kind |-> "HttpError"]]

\* send_message_stream from its send on (gemini.rs 663-680, 719-738): the request
\* is sent once and its answer is the call's result
StreamResult(response) ==
    IF response.kind = "transport_error"
    THEN [ok |-> FALSE, error |-> [kind |-> "HttpError"]]
    ELSE IF response.status \notin 200..299
    THEN [ok |-> FALSE, error |-> ApiError(response.status, response.body)]
    ELSE [ok |-> TRUE, stream |-> response.body]

\* ---- the schemas cleaned
MaxCleanings == 2

\* an object with the keys of S, each holding its own name
Leafy(S) == JObj([k \in S |-> JStr(k)])

\* objects one level deep, with and without removed keys
FlatSchemas == {Leafy(S) : S \in SUBSET {"type", "$ref", "exclusiveMinimum"}}

\* what a key of a nested schema can hold: a string, an object, arrays of objects
NestedValues ==
    {JStr("object")}
    \cup FlatSchemas
    \cup {JArr(<<>>), JArr(<<Leafy({"$id"}), Leafy({"type", "$comment"})>>),
          JArr(<<JArr(<<Leafy({"$schema", "type"})>>), JStr("$defs")>>)}

\* the input_schema values of the tools: scalars, arrays and objects up to three
\* levels deep, with removed keys at every level and as names of properties
Schemas ==
    {JNull, JStr("definitions")}
    \cup NestedValues
    \cup {JObj(m) : m \in UNION {[S -> NestedValues] :
                                   S \in SUBSET {"properties", "definitions", "items"}}}

SchemaIdle ==
    /\ schema = JNull
    /\ schema_before = <<>>
    /\ cleanings = 0

SchemaInit ==
    /\ schema \in Schemas
    /\ schema_before = <<>>
    /\ cleanings = 0

\* transform_request (gemini.rs 266-267): clean_json_schema(&mut parameters)
Clean ==
    /\ cleanings < MaxCleanings
    /\ schema' = clean_json_schema(schema)
    /\ schema_before' = Append(schema_before, schema)
    /\ cleanings' = cleanings + 1
    /\ UNCHANGED <<gemini, openai, routerVars, registryVars, authVars>>

\* ---- the answers of the upstream to a unary send_message
RetryInfo(duration) == [type |-> "RetryInfo", retry_delay |-> duration]
ErrorInfo(reason, domain, reset) ==
    [type |-> "ErrorInfo", reason |-> reason, domain |-> domain, quotaResetDelay |-> reset]

ErrorBody(details) == [kind |-> "error_json", details |-> details]

\* bodies of a 429: not JSON; no details; a retryDelay; a retryDelay in milliseconds
\* after one that does not parse; a Code Assist rate limit without and with a reset
\* delay; a rate limit of another domain; a negative retryDelay; a retryDelay
\* without a unit before one with; a retryDelay that is not a number
RateLimitBodies ==
    { [kind |-> "text"],
      ErrorBody(<<>>),
      ErrorBody(<<RetryInfo(<<"3", "s">>)>>),
      ErrorBody(<<RetryInfo(<<"soon", "s">>), [type |-> "Unknown"], RetryInfo(<<"900", "ms">>)>>),
      ErrorBody(<<ErrorInfo("RATE_LIMIT_EXCEEDED", <<"cloudcode-pa.googleapis.com">>, None)>>),
      ErrorBody(<<ErrorInfo("RATE_LIMIT_EXCEEDED", <<"daily-", "cloudcode-pa.googleapis.com">>,
                            Some(<<"0.5", "s">>))>>),
      ErrorBody(<<ErrorInfo("RATE_LIMIT_EXCEEDED", <<"googleapis.com">>, Some(<<"3", "s">>))>>),
      ErrorBody(<<RetryInfo(<<"-1", "s">>)>>),
      ErrorBody(<<RetryInfo(<<"3", "">>), RetryInfo(<<"0.5", "s">>)>>),
      ErrorBody(<<RetryInfo(<<"NaN", "s">>)>>) }

UpstreamResponses ==
    {[kind |-> "transport_error"]}
    \cup {[kind |-> "response", status |-> 429, body |-> b] : b \in RateLimitBodies}
    \cup {[kind |-> "response", status |-> 200, body |-> [kind |-> "gemini_response"]],
          [kind |-> "response", status |-> 200, body |-> [kind |-> "text"]],
          [kind |-> "response", status |-> 404, body |-> [kind |-> "text"]],
          [kind |-> "response", status |-> 500, body |-> [kind |-> "text"]]}

IdleGeminiCall ==
    [pc |-> "idle", mode |-> "unary", path |-> "public", retries |-> 0, attempts |-> 0,
     answers |-> <<>>, responses |-> <<>>, slept |-> <<>>, result |-> None]

\* no OpenAI call under way
IdleOpenAICall == [pc |-> "idle"]

GeminiIdle ==
    /\ gemini = IdleGeminiCall
    /\ SchemaIdle
    /\ openai = IdleOpenAICall

\* send_message up to the retry loop (gemini.rs 411-476, 527-561) and
\* send_message_stream up to its send (596-662, 681-718)
GeminiInit ==
    /\ \E mode \in {"unary", "stream"}, path \in {"code_assist", "public"} :
          gemini = [IdleGeminiCall EXCEPT !.pc = "sending", !.mode = mode, !.path = path]
    /\ SchemaIdle
    /\ openai = IdleOpenAICall

\* the request is sent and answered.  Unary: one turn of the retry loop, request_fn()
\* is awaited and its answer handled; when the loop returns, send_message goes on to
\* its own result.  Streaming: the answer is the result.
Attempt ==
    /\ gemini.pc = "sending"
    /\ \E response \in UpstreamResponses :
         LET turn == RetryLoopTurn(response, gemini.retries, MaxRetries)
             sent == [gemini EXCEPT !.attempts = @ + 1,
                                    !.answers = Append(@, IF response.kind = "response"
                                                          THEN response.status ELSE 0),
                                    !.responses = Append(@, response)]
         IN  gemini' =
               CASE gemini.mode = "stream" ->
                      [sent EXCEPT !.pc = "done", !.result = Some(StreamResult(response))]
                 [] turn.do = "retry" ->
                      [sent EXCEPT !.pc = "sleeping", !.retries = @ + 1,
                                   !.slept = Append(@, turn.delay)]
                 [] turn.do = "panic" -> [sent EXCEPT !.pc = "panicked"]
                 [] OTHER ->
                      [sent EXCEPT !.pc = "done",
                                   !.result = Some(IF turn.result.ok
                                                   THEN AfterRetryLoop(gemini.path, turn.result.response)
                                                   ELSE turn.result)]
    /\ UNCHANGED <<schema, schema_before, cleanings, openai, routerVars, registryVars, authVars>>

\* tokio::time::sleep(delay) is over (gemini.rs 385-386)
Wake ==
    /\ gemini.pc = "sleeping"
    /\ gemini' = [gemini EXCEPT !.pc = "sending"]
    /\ UNCHANGED <<schema, schema_before, cleanings, openai, routerVars, registryVars, authVars>>

-----------------------------------------------------------------------------
(***************************************************************************)
(* The OpenAI adapter: the endpoint a call goes to and the account id      *)
(* taken from the access token.  A model name is a sequence of atoms.  An  *)
(* access token is the sequence of its segments between the dots; a        *)
(* segment is                                                              *)
(*   [kind |-> "garbage"]                    not base64url                 *)
(*   [kind |-> "b64", utf8 |-> FALSE]        decodes, not UTF-8            *)
(*   [kind |-> "b64", utf8 |-> TRUE, json |-> None]     text, not JSON     *)
(*   [kind |-> "b64", utf8 |-> TRUE, json |-> Some(v)]  the JSON value v   *)
(***************************************************************************)
\* str::to_lowercase on the atoms of a model name
ModelLower(a) ==
    CASE a = "Codex" -> "codex"
      [] a = "CODEX" -> "codex"
      [] a = "GPT"   -> "gpt"
      [] OTHER       -> a

\* OpenAIProvider::is_codex_model
is_codex_model(model) == \E i \in 1..Len(model) : ModelLower(model[i]) = "codex"

\* OpenAIProvider::is_oauth
is_oauth(adapter) == IsSome(adapter.oauth_provider) /\ adapter.token_store

ChatGptBackend == "https://chatgpt.com/backend-api"

\* openai.rs 840-844, 1059-1063
BaseUrl(adapter) == IF is_oauth(adapter) THEN ChatGptBackend ELSE adapter.base_url

\* send_message (openai.rs 849-866, 938-939): the API and the URL of the POST
send_message_target(adapter, model) ==
    LET use_responses_api == IF is_oauth(adapter) THEN TRUE ELSE is_codex_model(model)
    IN  IF use_responses_api
        THEN [api |-> "responses", base |-> BaseUrl(adapter),
              endpoint |-> IF is_oauth(adapter) THEN "/codex/responses" ELSE "/responses"]
        ELSE [api |-> "chat", base |-> BaseUrl(adapter), endpoint |-> "/chat/completions"]

\* send_message_stream (openai.rs 1066-1081)
send_message_stream_target(adapter, model) ==
    IF is_codex_model(model)
    THEN [api |-> "responses", base |-> BaseUrl(adapter), endpoint |-> "/responses"]
    ELSE [api |-> "chat", base |-> BaseUrl(adapter), endpoint |-> "/chat/completions"]

\* serde_json::Value::get
JsonGet(v, key) == IF v.t = "object" /\ key \in DOMAIN v.m THEN Some(v.m[key]) ELSE None

AuthClaim      == "https://api.openai.com/auth"
AccountIdClaim == "chatgpt_account_id"

\* OpenAIProvider::extract_account_id
extract_account_id(access_token) ==
    IF Len(access_token) # 3 THEN None
    ELSE LET seg == access_token[2]
         IN  IF seg.kind # "b64" THEN None
             ELSE IF ~seg.utf8 THEN None
             ELSE IF seg.json = None THEN None
             ELSE LET auth == JsonGet(Unwrap(seg.json), AuthClaim)
                  IN  IF auth = None THEN None
                      ELSE LET id == JsonGet(Unwrap(auth), AccountIdClaim)
                           IN  IF id = None THEN None
                               ELSE IF Unwrap(id).t # "string" THEN None
                               ELSE Some(Unwrap(id).v)

\* ProviderError::AuthError
AuthError(message) == [kind |-> "AuthError", message |-> message]

\* get_auth_header without the refresh (openai.rs 505-550): the stored access token of
\* an OAuth-bound adapter, the API key otherwise
get_auth_header(adapter, stored) ==
    IF IsSome(adapter.oauth_provider)
    THEN IF ~adapter.token_store
         THEN [ok |-> FALSE, error |-> AuthError("TokenStore not available")]
         ELSE IF stored = None
         THEN [ok |-> FALSE, error |-> AuthError("no token found in store")]
         ELSE [ok |-> TRUE, value |-> Unwrap(stored)]
    ELSE [ok |-> TRUE, value |-> adapter.api_key]

\* the headers send_message adds for an OAuth-bound adapter (openai.rs 875-894,
\* 947-964): none when the account id cannot be extracted
send_message_headers(adapter, target, auth_value) ==
    IF is_oauth(adapter) /\ IsSome(extract_account_id(auth_value))
    THEN [account_id |-> extract_account_id(auth_value),
          codex |-> target.api = "responses", browser |-> TRUE]
    ELSE [account_id |-> None, codex |-> FALSE, browser |-> FALSE]

\* the headers send_message_stream adds (openai.rs 1090-1105)
send_message_stream_headers(adapter, model, auth_value) ==
    IF is_oauth(adapter) /\ is_codex_model(model) /\ IsSome(extract_account_id(auth_value))
    THEN [account_id |-> extract_account_id(auth_value), codex |-> TRUE, browser |-> FALSE]
    ELSE IF is_oauth(adapter) /\ IsSome(extract_account_id(auth_value))
    THEN [account_id |-> extract_account_id(auth_value), codex |-> FALSE, browser |-> FALSE]
    ELSE [account_id |-> None, codex |-> FALSE, browser |-> FALSE]

\* ---- the adapters, model names and access tokens the calls are made with
OpenAIAdapters ==
    [oauth_provider : {None, Some("openai-codex")}, token_store : BOOLEAN,
     api_key : {<<[kind |-> "garbage"]>>}, base_url : {"https://api.openai.com/v1"}]

OpenAIModels ==
    { <<"gpt", "-", "4o">>, <<"gpt", "-", "5", "-", "codex">>,
      <<"GPT", "-", "5", "-", "CODEX">>, <<"Codex", "-", "mini">> }

Header    == [kind |-> "b64", utf8 |-> TRUE, json |-> Some(JObj([alg |-> JStr("RS256")]))]
Signature == [kind |-> "garbage"]

\* the JSON payloads of a middle segment: the claim present, and absent in five ways
JwtPayloads ==
    { JObj((AuthClaim :> JObj((AccountIdClaim :> JStr("acct-1"))))),
      JObj((AuthClaim :> JObj((AccountIdClaim :> JNull)))),
      JObj((AuthClaim :> JObj([sub |-> JStr("u")]))),
      JObj((AuthClaim :> JStr("u"))),
      JObj([sub |-> JStr("u")]),
      JStr("u") }

MiddleSegments ==
    {[kind |-> "garbage"], [kind |-> "b64", utf8 |-> FALSE],
     [kind |-> "b64", utf8 |-> TRUE, json |-> None]}
    \cup {[kind |-> "b64", utf8 |-> TRUE, json |-> Some(v)] : v \in JwtPayloads}

GoodMiddle ==
    [kind |-> "b64", utf8 |-> TRUE,
     json |-> Some(JObj((AuthClaim :> JObj((AccountIdClaim :> JStr("acct-1"))))))]

AccessTokens ==
    {<<Header, m, Signature>> : m \in MiddleSegments}
    \cup {<<GoodMiddle>>, <<Header, GoodMiddle>>, <<Header, GoodMiddle, Signature, GoodMiddle>>}

\* the answers of the upstream to the POST
OpenAIAnswers == {[kind |-> "success"], [kind |-> "status", status |-> 401],
                  [kind |-> "transport_error"]}

OpenAIInit ==
    openai \in [pc : {"start"}, mode : {"send", "stream"}, adapter : OpenAIAdapters,
                model : OpenAIModels, stored : {None} \cup {Some(t) : t \in AccessTokens}]

\* the call up to its first await: get_auth_header (openai.rs 837, 1056)
Authenticate ==
    /\ openai.pc = "start"
    /\ LET auth == get_auth_header(openai.adapter, openai.stored)
       IN  openai' =
             IF auth.ok
             THEN [pc |-> "authed", mode |-> openai.mode, adapter |-> openai.adapter,
                   model |-> openai.model, stored |-> openai.stored, auth_value |-> auth.value]
             ELSE [pc |-> "done", mode |-> openai.mode, adapter |-> openai.adapter,
                   model |-> openai.model, stored |-> openai.stored, sent |-> None,
                   result |-> [ok |-> FALSE, error |-> auth.error]]
    /\ UNCHANGED <<gemini, schema, schema_before, cleanings, routerVars, registryVars, authVars>>

\* the rest of the call: the request is built and posted and the answer turned into
\* the call's result (openai.rs 839-1000, 1058-1126)
Post ==
    /\ openai.pc = "authed"
    /\ \E answer \in OpenAIAnswers :
         LET target  == IF openai.mode = "send"
                        THEN send_message_target(openai.adapter, openai.model)
                        ELSE send_message_stream_target(openai.adapter, openai.model)
             headers == IF openai.mode = "send"
                        THEN send_message_headers(openai.adapter, target, openai.auth_value)
                        ELSE send_message_stream_headers(openai.adapter, openai.model,
                                                         openai.auth_value)
         IN  openai' =
               [pc |-> "done", mode |-> openai.mode, adapter |-> openai.adapter,
                model |-> openai.model, stored |-> openai.stored,
                sent |-> Some([target |-> target, headers |-> headers,
                               bearer |-> openai.auth_value]),
                result |-> CASE answer.kind = "success" -> [ok |-> TRUE]
                             [] answer.kind = "status" ->
                                  [ok |-> FALSE, error |-> ApiError(answer.status, "body")]
                             [] OTHER -> [ok |-> FALSE, error |-> [kind |-> "HttpError"]]]
    /\ UNCHANGED <<gemini, schema, schema_before, cleanings, routerVars, registryVars, authVars>>

-----------------------------------------------------------------------------
RouterNext   == Route
RegistryNext == Build \/ Lookup \/ ConfigChange
StoreNext    == Save \/ Remove \/ Reload \/ Read \/ RefreshStored
SchemaNext   == Clean
GeminiNext   == Attempt \/ Wake
OpenAINext   == Authenticate \/ Post
ExpiryNext   == CheckExpiry \/ Tick
SharedNext   ==
    \E c \in Callers :
        LockForWrite(c) \/ Mutate(c) \/ Serialize(c) \/ Truncate(c) \/ WriteAndReturn(c)
OAuthNext    ==
    \/ Tick
    \/ Revoke
    \/ \E c \in Callers : CallStart(c) \/ RefreshBegin(c) \/ RefreshEnd(c) \/ UpstreamSend(c)

\* each specification exercises one component and leaves the others as constructed
RouterSpecInit   == RouterInit /\ RegistryIdle /\ AuthIdle /\ GeminiIdle
RegistrySpecInit == RegistryInit /\ RouterIdle /\ AuthIdle /\ GeminiIdle
StoreSpecInit    == StoreInit /\ RouterIdle /\ RegistryIdle /\ GeminiIdle
OAuthSpecInit    == OAuthInit /\ RouterIdle /\ RegistryIdle /\ GeminiIdle
SchemaSpecInit   ==
    /\ SchemaInit /\ gemini = IdleGeminiCall /\ openai = IdleOpenAICall
    /\ RouterIdle /\ RegistryIdle /\ AuthIdle
GeminiSpecInit   == GeminiInit /\ RouterIdle /\ RegistryIdle /\ AuthIdle
ExpirySpecInit   == ExpiryInit /\ RouterIdle /\ RegistryIdle /\ GeminiIdle
SharedSpecInit   == SharedInit /\ RouterIdle /\ RegistryIdle /\ GeminiIdle
OpenAISpecInit   ==
    /\ OpenAIInit /\ gemini = IdleGeminiCall /\ SchemaIdle
    /\ RouterIdle /\ RegistryIdle /\ AuthIdle

RouterSpec   == RouterSpecInit /\ [][RouterNext]_vars
RegistrySpec == RegistrySpecInit /\ [][RegistryNext]_vars
StoreSpec    == StoreSpecInit /\ [][StoreNext]_vars
OAuthSpec    == OAuthSpecInit /\ [][OAuthNext]_vars
SchemaSpec   == SchemaSpecInit /\ [][SchemaNext]_vars
GeminiSpec   == GeminiSpecInit /\ [][GeminiNext]_vars
OpenAISpec   == OpenAISpecInit /\ [][OpenAINext]_vars
ExpirySpec   == ExpirySpecInit /\ [][ExpiryNext]_vars
SharedSpec   == SharedSpecInit /\ [][SharedNext]_vars


-----------------------------------------------------------------------------
(***************************************************************************)
(* The router's rules as the specification states them, over the request   *)
(* as it came in (incoming) and the router's configuration.                *)
(***************************************************************************)
WebSearchApplies ==
    /\ IsSome(config.websearch)
    /\ IsSome(incoming.tools)
    /\ \E tool \in Range(Unwrap(incoming.tools)) :
          IsSome(tool.type) /\ Unwrap(tool.type) # <<>> /\ Unwrap(tool.type)[1] = "web_search"

\* the text holds <CCM-SUBAGENT-MODEL>NAME</CCM-SUBAGENT-MODEL> with NAME on one line
CompleteTagFrom(t, i) ==
    \E j \in (i + 2)..Len(t) :
        OpenAt(t, i) /\ CloseAt(t, j) /\ \A k \in (i + 2)..(j - 1) : t[k] # "\n"

HasCompleteTag(t) == \E i \in 1..Len(t) : CompleteTagFrom(t, i)

\* the NAME of the first complete tag of the text
FirstTagName(t) ==
    LET i == CHOOSE x \in 1..Len(t) :
                CompleteTagFrom(t, x) /\ \A y \in 1..(x - 1) : ~CompleteTagFrom(t, y)
        j == CHOOSE x \in (i + 2)..Len(t) :
                CloseAt(t, x) /\ \A y \in (i + 2)..(x - 1) : ~CloseAt(t, y)
    IN  SubSeq(t, i + 2, j - 1)

SubagentApplies ==
    /\ incoming.system.kind = "blocks"
    /\ Len(incoming.system.blocks) >= 2
    /\ HasCompleteTag(incoming.system.blocks[2])

ThinkApplies ==
    /\ IsSome(config.think)
    /\ IsSome(incoming.thinking)
    /\ Unwrap(incoming.thinking).type = "enabled"

BackgroundMatches == IsMatch(Unwrap(router.background_regex), incoming.model)
AutoMapMatches    == IsMatch(Unwrap(router.auto_map_regex), incoming.model)

BackgroundApplies == IsSome(config.background) /\ BackgroundMatches

Decision(name, type) == Some([model_name |-> name, route_type |-> type])

C2_BackgroundOnIncomingName ==
    (/\ routes >= 1
     /\ IsSome(config.background)
     /\ BackgroundMatches
     /\ ~WebSearchApplies /\ ~SubagentApplies /\ ~ThinkApplies)
    => decision = Decision(Unwrap(config.background), "Background")

\* a haiku request was auto-mapped to router.default, which the background regex
\* does not match, and was still routed to Background
C2_Witness ==
    /\ routes = 1
    /\ BackgroundMatches /\ AutoMapMatches
    /\ request.model = config.default
    /\ ~IsMatch(Unwrap(router.background_regex), request.model)
    /\ decision = Decision(<<"background.model">>, "Background")

\* C3: after route, request.model is router.default if the auto-map regex matched
\* the incoming name and the incoming name otherwise; when no other rule applies
\* the decision is (request.model, Default).
C3_AutoMapThenDefault ==
    routes >= 1 =>
        /\ request.model = IF AutoMapMatches THEN config.default ELSE incoming.model
        /\ (~WebSearchApplies /\ ~SubagentApplies /\ ~ThinkApplies /\ ~BackgroundApplies)
              => decision = Decision(request.model, "Default")

\* claude-sonnet came in, request.model is now default.model and so is the decision
C3_Witness ==
    /\ routes = 1
    /\ incoming.model = Sonnet
    /\ request.model = <<"default.model">>
    /\ decision = Decision(<<"default.model">>, "Default")


-----------------------------------------------------------------------------
(* The registry's claims, over the configuration the registry was built from. *)
Reg   == Unwrap(registry)
Table == Reg.model_to_provider

\* the enabled entries of the configuration
EnabledEntries == {i \in 1..Len(app_config.providers) : is_enabled(app_config.providers[i])}

\* the [[models]] mappings the configuration gives for model m
MappingsFor(m) ==
    UNION {Range(app_config.models[i].mappings) :
             i \in {k \in 1..Len(app_config.models) : app_config.models[k].name = m}}

\* the models some enabled provider declares
DeclaredModels ==
    UNION {Range(app_config.providers[i].models) : i \in EnabledEntries}

DistinctPriorities(ms) ==
    \A i, j \in 1..Len(ms) : i # j => ms[i].priority # ms[j].priority

\* the provider of the mapping with the lowest priority number
TopPriorityProvider(ms) ==
    ms[CHOOSE i \in 1..Len(ms) : \A j \in 1..Len(ms) : ms[i].priority <= ms[j].priority].provider

\* C8: for a [[models]] entry with several mappings of different priority numbers,
\* each naming a registered provider, the model table records the provider of the
\* mapping with the lowest number, in whatever order the mappings are listed.
C8_TopPriorityRecorded ==
    IsSome(registry) =>
        \A i \in 1..Len(app_config.models) :
            LET e == app_config.models[i]
            IN  (/\ Len(e.mappings) >= 2
                 /\ DistinctPriorities(e.mappings)
                 /\ \A k \in 1..Len(e.mappings) : e.mappings[k].provider \in list_providers(Reg))
                    => Table[e.name] = TopPriorityProvider(e.mappings)

\* two enabled entries of the configuration carry the same name
DuplicateProviderName ==
    \E i, j \in EnabledEntries :
        i # j /\ app_config.providers[i].name = app_config.providers[j].name

\* C9: building from a configuration in which two enabled providers have the same
\* name fails with a configuration error; no registry is produced.
C9_DuplicateNameRejected ==
    DuplicateProviderName =>
        /\ registry = None
        /\ IsSome(build_error) => Unwrap(build_error).kind = "ConfigError"

-----------------------------------------------------------------------------
(* Properties of the OAuth calls and of the token store.                   *)

\* a call that went through: the adapter sent upstream, get_valid_token returned
Completed(c) == calls[c].pc \in {"sent", "returned"}

\* C4: a call that reads a record not needing a refresh goes on with the stored
\* access token and posts nothing to the token URL; a call that reads a record
\* needing one posts exactly one refresh, has its answer before it sends upstream,
\* and presents the access token of that answer.
C4_RefreshOnceBeforeUpstream ==
    \A c \in Callers :
        /\ calls[c].posts <= 1
        /\ calls[c].posts = 1 => calls[c].stale
        /\ IsSome(calls[c].presented) => calls[c].pc = "sent"
        /\ Completed(c) =>
             /\ IsSome(calls[c].read)
             /\ IF calls[c].stale
                THEN /\ calls[c].posts = 1
                     /\ IsSome(calls[c].refreshed)
                     /\ calls[c].token = Some(Unwrap(calls[c].refreshed).access_token)
                ELSE /\ calls[c].posts = 0
                     /\ calls[c].refreshed = None
                     /\ calls[c].token = Some(Unwrap(calls[c].read).access_token)
             /\ calls[c].pc = "sent" => calls[c].presented = calls[c].token

\* an adapter sent upstream after a refresh, with a token other than the one it read,
\* while another call went through on the stored token without a refresh
C4_Witness ==
    \E c, d \in Callers :
        /\ calls[c].pc = "sent"
        /\ calls[c].stale
        /\ calls[c].presented = Some(Unwrap(calls[c].refreshed).access_token)
        /\ Unwrap(calls[c].presented) # Unwrap(calls[c].read).access_token
        /\ Completed(d)
        /\ ~calls[d].stale
        /\ calls[d].posts = 0

\* C5: when refresh_token fails on a network error, a non-2xx answer or a body that
\* does not parse, the store's map and the file are what they were when the answer
\* came, and the caller has an error.
C5_FailedRefreshKeepsToken ==
    (last_op.op = "refresh" /\ last_op.outcome \in RefreshFailures) =>
        /\ tokens = last_op.before
        /\ file = last_op.file_before
        /\ calls[last_op.caller].pc = "failed"
        /\ calls[last_op.caller].error = Some(last_op.outcome)
        /\ calls[last_op.caller].presented = None

\* the token URL rejected a refresh of a record that is stored
C5_Witness ==
    /\ last_op.op = "refresh"
    /\ last_op.outcome = "status_401"
    /\ OAuthId \in DOMAIN last_op.before
    /\ calls[last_op.caller].pc = "failed"

\* C10: after a save(t) that returned Ok, a store loaded from the same path loads,
\* returns for t.provider_id a record equal to t, and returns every other record
\* the store held before the save as it was.
C10_SaveReloadRoundTrip ==
    (last_op.op = "save" /\ last_op.ok /\ IsSome(reloaded)) =>
        LET second == Unwrap(reloaded)
            t      == last_op.token
        IN  /\ second.ok
            /\ Get(second.tokens, t.provider_id) = Some(t)
            /\ \A id \in (DOMAIN last_op.before) \ {t.provider_id} :
                  Get(second.tokens, id) = Some(last_op.before[id])

\* a record with an enterprise_url was saved over a store holding another provider's
\* record, and the file was loaded again
C10_Witness ==
    /\ last_op.op = "save"
    /\ last_op.ok
    /\ IsSome(last_op.token.enterprise_url)
    /\ (DOMAIN last_op.before) \ {last_op.token.provider_id} # {}
    /\ IsSome(reloaded)
    /\ Unwrap(reloaded).ok

\* the file holds a complete JSON object of the records, or does not exist
FileComplete(f) == f.kind \in {"absent", "json"}

\* C11: at every instant, a save or remove that failed part-way included, the token
\* file holds the complete previous JSON object or the complete new one, never an
\* empty or partly written one, so a later load of it does not fail.
C11_FileAlwaysComplete ==
    /\ FileComplete(file)
    /\ TokenStoreNew(file).ok
    /\ last_op.op \in {"save", "remove"} =>
          file \in {last_op.file_before, [kind |-> "json", object |-> MapToJson(tokens)]}

\* every key of the map is the provider_id of its record
KeyedByProviderId(map) == \A k \in DOMAIN map : map[k].provider_id = k

\* C12: the store holds one record per provider_id, keyed by it; after save(t) get
\* returns t for t.provider_id and after remove(id) it returns none for id; a save or
\* remove leaves the records of the other ids as they were; a get, a list_providers,
\* an all() and a refresh remove no record and touch no other id's record.
C12_OneRecordPerProvider ==
    /\ KeyedByProviderId(tokens)
    /\ last_op.op = "save" =>
          /\ Get(tokens, last_op.token.provider_id) = Some(last_op.token)
          /\ \A id \in StoreIds \ {last_op.token.provider_id} :
                Get(tokens, id) = Get(last_op.before, id)
    /\ last_op.op = "remove" =>
          /\ Get(tokens, last_op.id) = None
          /\ \A id \in StoreIds \ {last_op.id} : Get(tokens, id) = Get(last_op.before, id)
    /\ last_op.op \in {"get", "list_providers", "all"} => tokens = last_op.before
    /\ last_op.op = "get" => last_op.result = Get(tokens, last_op.id)
    /\ last_op.op = "list_providers" => last_op.result = DOMAIN tokens
    /\ last_op.op = "all" => last_op.result = tokens
    /\ last_op.op = "refresh" =>
          /\ DOMAIN tokens = DOMAIN last_op.before
          /\ \A id \in StoreIds \ {last_op.id} : Get(tokens, id) = Get(last_op.before, id)

\* the record of a was removed from a store that held records of a and of b, and
\* the record of b is still there
C12_Witness ==
    /\ last_op.op = "remove"
    /\ last_op.id = "a"
    /\ DOMAIN last_op.before = {"a", "b"}
    /\ DOMAIN tokens = {"b"}

\* C13: a load of an existing file that is not a JSON object of token records
\* returns an error and no store, and leaves the file as it is; a load of a missing
\* file returns an empty store.
C13_LoadFailureIsAnError ==
    /\ [](IsSome(reloaded) =>
            LET second == Unwrap(reloaded)
            IN  /\ file.kind = "absent" => (second.ok /\ second.tokens = EmptyMap)
                /\ ~FileComplete(file) =>
                      /\ ~second.ok
                      /\ "tokens" \notin DOMAIN second
                      /\ second.error = "Failed to parse token file")
    /\ [][(reloaded = None /\ IsSome(reloaded')) => file' = file]_vars

\* a partly written file was loaded while the running store held records: the load
\* gave an error
C13_Witness ==
    /\ IsSome(reloaded)
    /\ ~Unwrap(reloaded).ok
    /\ file.kind = "partial"
    /\ tokens # EmptyMap

-----------------------------------------------------------------------------
(* Properties of the Gemini adapter.                                       *)

\* C14: a unary send_message makes at most 3 HTTP attempts, whatever the upstream
\* answers; a call that was answered 429 every time ends with ApiError of status 429
\* carrying the upstream body.
C14_AtMostThreeAttempts ==
    /\ gemini.attempts <= 3
    /\ (gemini.pc = "done" /\ \A i \in 1..Len(gemini.answers) : gemini.answers[i] = 429) =>
          /\ ~Unwrap(gemini.result).ok
          /\ Unwrap(gemini.result).error.kind = "ApiError"
          /\ Unwrap(gemini.result).error.status = 429
          /\ Unwrap(gemini.result).error.message \in RateLimitBodies

\* the keys a cleaned schema may not hold
ForbiddenKeys ==
    {"$schema", "$id", "$ref", "$comment", "exclusiveMinimum", "exclusiveMaximum",
     "definitions", "$defs"}

\* no object of the value, at any depth, has a forbidden key
RECURSIVE NoForbiddenKey(_)
NoForbiddenKey(value) ==
    CASE value.t = "object" ->
            /\ (DOMAIN value.m) \cap ForbiddenKeys = {}
            /\ \A k \in DOMAIN value.m : NoForbiddenKey(value.m[k])
      [] value.t = "array" -> \A i \in 1..Len(value.a) : NoForbiddenKey(value.a[i])
      [] OTHER -> TRUE

\* out is in with the forbidden keys taken out: every other key, element and scalar
\* is where it was
RECURSIVE KeptInPlace(_, _)
KeptInPlace(in, out) ==
    CASE in.t = "object" ->
            /\ out.t = "object"
            /\ DOMAIN out.m = (DOMAIN in.m) \ ForbiddenKeys
            /\ \A k \in DOMAIN out.m : KeptInPlace(in.m[k], out.m[k])
      [] in.t = "array" ->
            /\ out.t = "array"
            /\ Len(out.a) = Len(in.a)
            /\ \A i \in 1..Len(in.a) : KeptInPlace(in.a[i], out.a[i])
      [] OTHER -> out = in

\* C15: after clean_json_schema no object of the value has a forbidden key at any
\* depth, every other key and value is preserved in place, and cleaning a cleaned
\* value changes nothing.
C15_SchemaCleaned ==
    cleanings >= 1 =>
        /\ NoForbiddenKey(schema)
        /\ \A i \in 1..Len(schema_before) : KeptInPlace(schema_before[i], schema)
        /\ cleanings >= 2 => schema = schema_before[2]

\* a schema whose top level had no forbidden key and whose nested values had some
\* was cleaned, and then cleaned again
C15_Witness ==
    /\ cleanings = 2
    /\ schema_before[1].t = "object"
    /\ DOMAIN schema_before[1].m = {"properties", "items"}
    /\ schema_before[1].m["properties"] = Leafy({"type", "$ref"})
    /\ schema_before[1].m["items"] =
          JArr(<<JArr(<<Leafy({"$schema", "type"})>>), JStr("$defs")>>)
    /\ schema = JObj([k \in {"properties", "items"} |->
                        IF k = "properties" THEN Leafy({"type"})
                        ELSE JArr(<<JArr(<<Leafy({"type"})>>), JStr("$defs")>>)])

-----------------------------------------------------------------------------
(* Further properties of the router.                                       *)

\* C16: whenever route returns a subagent decision, the text of system block 1
\* holds no complete subagent tag afterwards, and the decision's model name is the
\* NAME of the first tag of the text that came in.
C16_TagsRemovedInOnePass ==
    (routes >= 1 /\ ~WebSearchApplies /\ SubagentApplies) =>
        /\ decision = Decision(FirstTagName(incoming.system.blocks[2]), "Default")
        /\ ~HasCompleteTag(request.system.blocks[2])

\* the name starts with the atoms of prefix
StartsWith(name, prefix) ==
    Len(name) >= Len(prefix) /\ SubSeq(name, 1, Len(prefix)) = prefix

\* what ^claude- matches, and what (?i)claude.*haiku matches
MatchesClaudeDash(name) == StartsWith(name, <<"claude", "-">>)
MatchesClaudeHaiku(name) ==
    \E i, j \in 1..Len(name) :
        i < j /\ name[i] \in {"claude", "Claude", "CLAUDE"} /\ name[j] \in {"haiku", "Haiku", "HAIKU"}

\* the pattern is absent, the empty string, or does not compile
FallsBackToDefault(opt) == opt = None \/ opt = Some(<<>>) \/ opt = Some(InvalidPattern)

\* C17: Router::new succeeds for every configuration; the auto-map regex of the
\* router matches what ^claude- matches when auto_map_regex is absent, empty or
\* invalid, and what the configured pattern matches otherwise; likewise the
\* background regex with (?i)claude.*haiku.
C17_RegexDefaults ==
    /\ IsSome(router.auto_map_regex)
    /\ IsSome(router.background_regex)
    /\ \A name \in ModelNames :
          /\ IsMatch(Unwrap(router.auto_map_regex), name) <=>
                IF FallsBackToDefault(config.auto_map_regex) THEN MatchesClaudeDash(name)
                ELSE StartsWith(name, <<"glm">>)
          /\ IsMatch(Unwrap(router.background_regex), name) <=>
                IF FallsBackToDefault(config.background_regex) THEN MatchesClaudeHaiku(name)
                ELSE "glm" \in Range(name)

\* under an empty auto_map_regex a claude name was rewritten to router.default
\* and routed, and the glm name is not matched: the default pattern is in use
C17_Witness ==
    /\ config.auto_map_regex = Some(<<>>)
    /\ routes = 1
    /\ incoming.model = Sonnet
    /\ request.model = config.default
    /\ ~IsMatch(Unwrap(router.auto_map_regex), Glm)

\* no rule of route applies to the request as it came in, auto-mapping included
NoSpecialRule ==
    /\ ~AutoMapMatches
    /\ ~WebSearchApplies /\ ~SubagentApplies /\ ~ThinkApplies /\ ~BackgroundApplies

\* C18: for a request that matches no special rule, the second call of route
\* returns the decision of the first and leaves the request as the first left it.
C18_RouteIdempotent ==
    [][(routes = 1 /\ routes' = 2 /\ NoSpecialRule)
          => (decision' = decision /\ request' = request)]_vars

\* a glm request without tools, tag or thinking was routed twice to (glm, Default)
C18_Witness ==
    /\ routes = 2
    /\ NoSpecialRule
    /\ incoming.model = Glm
    /\ request = incoming
    /\ decision = Decision(Glm, "Default")

-----------------------------------------------------------------------------
(* Further properties of the registry build.                               *)

\* the build has run
Built == IsSome(registry) \/ IsSome(build_error)

\* the entries with enabled = true or enabled unset, and their names
RetainedEntries ==
    {i \in 1..Len(app_config.providers) : app_config.providers[i].enabled # Some(FALSE)}
RetainedNames == {app_config.providers[i].name : i \in RetainedEntries}

\* the entry lacks the credential its auth_type requires
LacksCredential(pc) ==
    \/ pc.auth_type = "ApiKey" /\ pc.api_key = None
    \/ pc.auth_type = "OAuth" /\ pc.oauth_provider = None

\* the retained entries that cannot be built
FaultyEntries ==
    {i \in RetainedEntries :
        \/ app_config.providers[i].provider_type \notin ProviderTypes
        \/ LacksCredential(app_config.providers[i])}

\* every mapping of the [[models]] entries of the configuration
AllMappings == UNION {Range(app_config.models[i].mappings) : i \in 1..Len(app_config.models)}

\* C19: an entry with enabled = false contributes no adapter and no model-table
\* entry and never makes the build fail; a retained entry with a provider_type
\* outside the closed set or without the credential of its auth_type makes the build
\* fail with a ConfigError.
C19_EnabledFlag ==
    Built =>
        /\ FaultyEntries # {} =>
              /\ registry = None
              /\ Unwrap(build_error).kind = "ConfigError"
        /\ IsSome(registry) =>
              /\ list_providers(Reg) = RetainedNames
              /\ \A n \in list_providers(Reg) : Reg.providers[n].entry \in RetainedEntries
              /\ list_models(Reg) =
                    UNION {Range(app_config.providers[i].models) : i \in RetainedEntries}
                    \cup {app_config.models[i].name :
                            i \in {k \in 1..Len(app_config.models) :
                                     app_config.models[k].mappings # <<>>}}
              /\ \A m \in list_models(Reg) : Table[m] \in RetainedNames
        /\ (FaultyEntries = {} /\ \A mp \in AllMappings : mp.provider \in RetainedNames)
              => IsSome(registry)

\* a configuration with a disabled entry of unknown type and without credential was
\* built into a registry that holds only the other entry
C19_Witness ==
    /\ IsSome(registry)
    /\ \E i \in 1..Len(app_config.providers) :
          /\ app_config.providers[i].enabled = Some(FALSE)
          /\ app_config.providers[i].provider_type = "llama"
          /\ app_config.providers[i].api_key = None
          /\ app_config.providers[i].name \notin list_providers(Reg)
    /\ list_providers(Reg) = {"p1"}

\* C20: a [[models]] mapping that names a provider without a retained adapter - a
\* name absent from the configuration or the name of a disabled provider - makes the
\* build fail with a ConfigError; a built registry has no model-table entry that
\* points to a name without an adapter.
C20_MappingToUnknownProvider ==
    Built =>
        /\ (\E mp \in AllMappings : mp.provider \notin RetainedNames) =>
              /\ registry = None
              /\ Unwrap(build_error).kind = "ConfigError"
        /\ IsSome(registry) =>
              \A m \in DOMAIN Table : Table[m] \in DOMAIN Reg.providers

\* the only fault of the configuration is a mapping to p2, whose single entry is
\* disabled, and the build failed on it
C20_Witness ==
    /\ build_error = Some([kind |-> "ConfigError", why |-> "unknown provider"])
    /\ FaultyEntries = {}
    /\ "p2" \notin RetainedNames
    /\ \E i \in 1..Len(app_config.providers) : app_config.providers[i].name = "p2"
    /\ \A mp \in AllMappings : mp.provider \in {"p1", "p2"}
    /\ \E mp \in AllMappings : mp.provider = "p2"

\* what the four read calls on a registry return: get_provider_for_model for every
\* model name, get_provider for every provider name, list_models, list_providers
QueryResults(reg) ==
    [for_model      |-> [m \in ModelIds |-> get_provider_for_model(reg, m)],
     provider       |-> [n \in {"p1", "p2", "p3"} |-> get_provider(reg, n)],
     list_models    |-> list_models(reg),
     list_providers |-> list_providers(reg)]

-----------------------------------------------------------------------------
(* Further properties of the OAuth client and the token store.             *)

\* C22: the record a successful refresh_token writes to the store never has an
\* expires_at earlier than the expires_at of the record it replaces.
C22_ExpiresAtMonotone ==
    (/\ last_op.op = "refresh"
     /\ last_op.outcome = "ok"
     /\ OAuthId \in DOMAIN last_op.before)
        => tokens[OAuthId].expires_at >= last_op.before[OAuthId].expires_at

-----------------------------------------------------------------------------
(* Properties of the OpenAI adapter.                                       *)

\* the endpoint the specification gives for an adapter and a model name
SpecifiedTarget(oauth_bound, codex_name, base_url) ==
    IF oauth_bound
    THEN [api |-> "responses", base |-> ChatGptBackend, endpoint |-> "/codex/responses"]
    ELSE IF codex_name
    THEN [api |-> "responses", base |-> base_url, endpoint |-> "/responses"]
    ELSE [api |-> "chat", base |-> base_url, endpoint |-> "/chat/completions"]

\* the model name contains "codex" in some spelling
NamesCodex(model) == \E i \in 1..Len(model) : model[i] \in {"codex", "Codex", "CODEX"}

\* C23: for unary send and for streaming alike, the Responses API is used iff the
\* adapter is OAuth-bound or the model name contains "codex" in any case, at
\* /codex/responses under the ChatGPT backend host when OAuth-bound and at /responses
\* under the configured base URL otherwise; /chat/completions in all other cases.
C23_SameEndpointSendAndStream ==
    (openai.pc = "done" /\ IsSome(openai.sent))
        => Unwrap(openai.sent).target =
              SpecifiedTarget(IsSome(openai.adapter.oauth_provider) /\ openai.adapter.token_store,
                              NamesCodex(openai.model), openai.adapter.base_url)

\* C24: a call of an OAuth-bound adapter whose access token yields no
\* chatgpt_account_id ends with an AuthError, for send and for stream.
C24_BadTokenIsAuthError ==
    (/\ openai.pc = "done"
     /\ IsSome(openai.adapter.oauth_provider) /\ openai.adapter.token_store
     /\ IsSome(openai.stored)
     /\ \/ Len(Unwrap(openai.stored)) # 3
        \/ Unwrap(openai.stored)[2] # GoodMiddle)
        => (~openai.result.ok /\ openai.result.error.kind = "AuthError")

-----------------------------------------------------------------------------
(* Properties of the token record's predicates.                            *)

\* the minutes the checked record still had to live when it was checked
Remaining == last_op.token.expires_at - last_op.at

\* C25: is_expired() holds exactly when now >= expires_at and needs_refresh() exactly
\* when now + 5 minutes >= expires_at; so every expired token needs refresh, a token
\* expiring exactly 5 minutes from now needs refresh, and one expiring later than that
\* is neither expired nor in need of refresh.
C25_ExpiryPredicates ==
    last_op.op = "check" =>
        /\ last_op.is_expired <=> Remaining <= 0
        /\ last_op.needs_refresh <=> Remaining <= 5
        /\ last_op.is_expired => last_op.needs_refresh
        /\ Remaining = 5 => last_op.needs_refresh
        /\ Remaining > 5 => (~last_op.is_expired /\ ~last_op.needs_refresh)

\* a record checked exactly five minutes before its expiry, after time has passed:
\* in need of refresh and not expired
C25_Witness ==
    /\ last_op.op = "check"
    /\ last_op.at > 0
    /\ Remaining = 5
    /\ last_op.needs_refresh
    /\ ~last_op.is_expired

-----------------------------------------------------------------------------
(* Further properties of the Gemini adapter.                               *)

\* the i-th answer of the upstream to the call and whether it was a 429
Answer(i)      == gemini.responses[i]
Was429(i)      == Answer(i).kind = "response" /\ Answer(i).status = 429
Result         == Unwrap(gemini.result)
LastAnswer     == Answer(Len(gemini.responses))

\* C26: a unary call re-sends only after a 429 whose body yields a retry delay, and
\* only after waiting that delay; a 429 without a delay hint is returned at once as
\* ApiError 429 with the upstream body; any other response is returned after that one
\* attempt; a transport error ends the call; a streaming call never re-sends.
C26_RetryOnlyAfter429WithDelay ==
    /\ gemini.attempts = Len(gemini.responses)
    \* every answer that was followed by a wait was a 429 with a delay, and the wait
    \* was that delay
    /\ Len(gemini.slept) <= Len(gemini.responses)
    /\ \A i \in 1..Len(gemini.slept) :
          /\ Was429(i)
          /\ extract_retry_delay(Answer(i).body) = [kind |-> "some", ms |-> gemini.slept[i]]
    \* no request is sent before the wait for the answer before it is over
    /\ gemini.pc = "sending" => Len(gemini.slept) = Len(gemini.responses)
    /\ gemini.pc = "sleeping" => Len(gemini.slept) = Len(gemini.responses)
    /\ Len(gemini.slept) >= Len(gemini.responses) - 1
    \* a 429 without a delay hint, another response, a transport error: returned at once
    /\ (gemini.mode = "unary" /\ gemini.responses # <<>>) =>
          /\ (Was429(Len(gemini.responses))
                /\ extract_retry_delay(LastAnswer.body).kind = "none") =>
                   /\ gemini.pc = "done"
                   /\ Result = [ok |-> FALSE, error |-> ApiError(429, LastAnswer.body)]
          /\ (LastAnswer.kind = "response" /\ LastAnswer.status # 429) =>
                   /\ gemini.pc = "done"
                   /\ Result.ok <=> (LastAnswer.status = 200
                                       /\ LastAnswer.body.kind = "gemini_response")
                   /\ (LastAnswer.status # 200) =>
                         (Result.error.kind = "ApiError"
                            /\ Result.error.status = LastAnswer.status)
          /\ LastAnswer.kind = "transport_error" =>
                   /\ gemini.pc = "done"
                   /\ Result = [ok |-> FALSE, error |-> [kind |-> "HttpError"]]
    \* streaming
    /\ gemini.mode = "stream" =>
          /\ gemini.attempts <= 1
          /\ gemini.slept = <<>>
          /\ gemini.attempts = 1 => gemini.pc = "done"

\* a unary call that waited 3 s after a 429 with that retryDelay, re-sent, and was then
\* answered a 429 without a hint, which ended it
C26_Witness ==
    /\ gemini.mode = "unary"
    /\ gemini.pc = "done"
    /\ Len(gemini.responses) = 2
    /\ Was429(1) /\ Was429(2)
    /\ gemini.slept = <<3000>>
    /\ Answer(2).body = ErrorBody(<<>>)
    /\ Result.error = ApiError(429, ErrorBody(<<>>))

\* the number texts that are finite and not negative, and the milliseconds a duration
\* string made of one of them and a unit stands for
WellFormedNumbers == {"3", "0.5", "900"}
Milliseconds(duration) ==
    LET thousandths == CASE duration[1] = "3"   -> 3000
                         [] duration[1] = "0.5" -> 500
                         [] OTHER               -> 900000
    IN  IF duration[2] = "s" THEN thousandths ELSE thousandths \div 1000

\* the duration string is '<number>s' or '<number>ms'; anything else is malformed
WellFormed(duration) == duration[1] \in WellFormedNumbers /\ duration[2] \in {"s", "ms"}

\* the delay the specification gives for the body of a 429: that of the first RetryInfo
\* detail with a well-formed retryDelay; failing that, for the first Code Assist
\* RATE_LIMIT_EXCEEDED ErrorInfo, its quotaResetDelay if well-formed and 10 s
\* otherwise; none in every other case
SpecifiedDelay(body) ==
    IF body.kind # "error_json" THEN None
    ELSE LET d     == body.details
             infos == {i \in 1..Len(d) : d[i].type = "RetryInfo" /\ WellFormed(d[i].retry_delay)}
             rates == {i \in 1..Len(d) :
                         /\ d[i].type = "ErrorInfo"
                         /\ d[i].reason = "RATE_LIMIT_EXCEEDED"
                         /\ \E k \in 1..Len(d[i].domain) :
                               d[i].domain[k] = "cloudcode-pa.googleapis.com"}
             first(S) == CHOOSE i \in S : \A j \in S : i <= j
         IN  IF infos # {} THEN Some(Milliseconds(d[first(infos)].retry_delay))
             ELSE IF rates # {}
             THEN LET reset == d[first(rates)].quotaResetDelay
                  IN  IF IsSome(reset) /\ WellFormed(Unwrap(reset))
                      THEN Some(Milliseconds(Unwrap(reset)))
                      ELSE Some(10000)
             ELSE None

\* C27: on the body of every 429, extract_retry_delay gives the delay of the first
\* RetryInfo detail whose value parses, else the quotaResetDelay (or 10 s) of the first
\* Code Assist RATE_LIMIT_EXCEEDED ErrorInfo, else nothing; a malformed duration -
\* non-numeric, unit-less, negative or non-finite - is ignored and never makes the
\* parser crash.
C27_RetryDelayExtracted ==
    /\ gemini.pc # "panicked"
    /\ \A i \in 1..Len(gemini.responses) :
          (gemini.mode = "unary" /\ Was429(i)) =>
             /\ i <= Len(gemini.slept) => SpecifiedDelay(Answer(i).body) = Some(gemini.slept[i])
             /\ SpecifiedDelay(Answer(i).body) = None =>
                   (i > Len(gemini.slept) /\ gemini.pc = "done")

-----------------------------------------------------------------------------
(* Properties of concurrent calls on a shared token store.                 *)

\* every call has returned, and at least one was made
AllReturned ==
    /\ \A c \in Callers : calls[c].pc = "idle"
    /\ \E c \in Callers : calls[c].returned > 0

\* C28: under any interleaving of concurrent save and remove calls on one shared
\* store whose writes succeed, the changes of the map exclude one another (and any
\* persist that is serializing or writing), and once all calls have returned the file
\* holds the serialization of the final map.
C28_FileMatchesMapWhenQuiet ==
    /\ Cardinality(Writers) <= 1
    /\ Writers # {} => Readers = {}
    /\ AllReturned => file = [kind |-> "json", object |-> MapToJson(tokens)]

\* both callers have made calls whose persists overlapped - the one emptied the file
\* while the other held its serialized text - and all calls have returned, the last of
\* them a remove
C28_Witness ==
    /\ AllReturned
    /\ \A c \in Callers : calls[c].returned = MaxCalls /\ calls[c].overlapped
    /\ last_op.op = "remove"
    /\ DOMAIN tokens = {"b"}

-----------------------------------------------------------------------------
(* The frame of Router::route.                                             *)

\* the text without its complete subagent tags, taken out from left to right
RECURSIVE WithoutTags(_)
WithoutTags(t) ==
    IF ~HasCompleteTag(t) THEN t
    ELSE LET i == CHOOSE x \in 1..Len(t) :
                     CompleteTagFrom(t, x) /\ \A y \in 1..(x - 1) : ~CompleteTagFrom(t, y)
             j == CHOOSE x \in (i + 2)..Len(t) :
                     CloseAt(t, x) /\ \A y \in (i + 2)..(x - 1) : ~CloseAt(t, y)
         IN  SubSeq(t, 1, i - 1) \o WithoutTags(SubSeq(t, j + 2, Len(t)))

\* C29: route changes the request in at most two ways: request.model may become
\* router.default, and the text of system block 1 may lose its subagent tags, the
\* latter only when the subagent decision is returned.  Messages, tools, thinking,
\* max_tokens and every other system block stay as they were; when the WebSearch rule
\* decides, the system prompt is untouched; route returns a decision, never an error.
C29_RouteFrame ==
    routes >= 1 =>
        /\ IsSome(decision)
        /\ DOMAIN request = DOMAIN incoming
        /\ request.model \in {incoming.model, config.default}
        /\ request.messages = incoming.messages
        /\ request.tools = incoming.tools
        /\ request.thinking = incoming.thinking
        /\ request.max_tokens = incoming.max_tokens
        /\ request.system.kind = incoming.system.kind
        /\ incoming.system.kind # "blocks" => request.system = incoming.system
        /\ incoming.system.kind = "blocks" =>
              /\ Len(request.system.blocks) = Len(incoming.system.blocks)
              /\ \A i \in 1..Len(incoming.system.blocks) :
                    i # 2 => request.system.blocks[i] = incoming.system.blocks[i]
        /\ request.system # incoming.system =>
              /\ decision = Decision(FirstTagName(incoming.system.blocks[2]), "Default")
              /\ request.system.blocks[2] = WithoutTags(incoming.system.blocks[2])
        /\ Unwrap(decision).route_type = "WebSearch" => request.system = incoming.system

\* a request whose three system blocks all held a tag was auto-mapped and routed by
\* the tag of block 1: the model name and block 1 changed, the blocks around it did not
C29_Witness ==
    /\ routes = 1
    /\ incoming.system = [kind |-> "blocks", blocks |-> <<TaggedText, TaggedText, TaggedText>>]
    /\ incoming.model = Sonnet
    /\ request.model = config.default
    /\ decision = Decision(<<"gpt-4o">>, "Default")
    /\ request.system.blocks =
          <<TaggedText, <<"gpt-4o", "\n", "\n", "gpt-4o">>, TaggedText>>
    /\ request.tools = incoming.tools /\ IsSome(incoming.tools)

-----------------------------------------------------------------------------
(* The token store after a failed persist.                                 *)

\* the last operation was a save or a remove, and the provider_id it was about
LastWasChange == last_op.op \in {"save", "remove"}
ChangedId     == IF last_op.op = "save" THEN last_op.token.provider_id ELSE last_op.id

\* the map holds the change of the last save or remove, and nothing else changed
ChangeApplied ==
    /\ Get(tokens, ChangedId) = (IF last_op.op = "save" THEN Some(last_op.token) ELSE None)
    /\ \A id \in StoreIds \ {ChangedId} : Get(tokens, id) = Get(last_op.before, id)

\* the file holds the serialization of the map
FileMatchesMap == file = [kind |-> "json", object |-> MapToJson(tokens)]

\* C30, as stated: when the write or the setting of the permissions fails, save and
\* remove return an error with the change applied to the map, and the file and the
\* map differ.
C30_FileAndMapDiffer ==
    (LastWasChange /\ ~last_op.ok) => (ChangeApplied /\ ~FileMatchesMap)

\* C30, amended: save and remove apply the change to the map before persisting and
\* never take it back: when the persist fails the call returns an error and get
\* already returns the new record (none after a remove).  The file then holds what it
\* held before (the open failed), an empty or cut-off text (the write failed), or the
\* new serialization already (only the permissions could not be set); a persist that
\* succeeds leaves the file equal to the map.
C30_NoRollback ==
    LastWasChange =>
        /\ ChangeApplied
        /\ last_op.ok <=> last_op.outcome = "ok"
        /\ last_op.ok => FileMatchesMap
        /\ last_op.outcome = "open_failed" => file = last_op.file_before
        /\ last_op.outcome \in {"write_none", "write_failed"} => file.kind \in {"empty", "partial"}
        /\ last_op.outcome = "chmod_failed" => FileMatchesMap

\* a save of a new record for provider a failed while writing: the call returned an
\* error, get returns the new record, and the file is cut off
C30_Witness ==
    /\ last_op.op = "save"
    /\ ~last_op.ok
    /\ last_op.outcome = "write_failed"
    /\ Get(last_op.before, "a") # Some(last_op.token)
    /\ Get(tokens, "a") = Some(last_op.token)
    /\ file.kind = "partial"

=============================================================================
